---- MODULE Spec2Model ----
(***************************************************************************)
(* Retrieval-and-rerank pipeline of query_astra_llm.py: extract_query_terms, *)
(* keyword_gate, keyword_overlap_score, rerank_candidates and              *)
(* retrieve_and_answer, and the POST /answer endpoint of server.py that    *)
(* calls it from worker threads; the pipeline management of server.py      *)
(* (start_pipeline, run_pipeline_background, delete_pipeline) with the     *)
(* run_all.py child it launches; and the breadth-first crawl of crawl.py.  *)
(*                                                                         *)
(* A Python str is a sequence of one-character strings.  A candidate (a    *)
(* document returned by collection.find) is a record                       *)
(*   id       the identity of the dict object (its position in the input), *)
(*   hasText  whether c.get("text") is a str (FALSE: missing or None),     *)
(*   text     the value of c["text"],                                      *)
(*   hasSim   whether the key "$similarity" is present,                    *)
(*   sim      the value of c["$similarity"],                               *)
(*   hasScore whether the key "_rerank_score" is present,                  *)
(*   score    the value of c["_rerank_score"].                             *)
(***************************************************************************)
EXTENDS Integers, Sequences, FiniteSets, TLC

VARIABLES
    pc,          \* position in the running function
    question,    \* retrieve_and_answer: q
    terms,       \* query_terms / terms
    cands,       \* the candidates a function received (retrieve_and_answer: cands)
    gated,       \* value returned by keyword_gate
    ranked,      \* value returned by rerank_candidates
    pairs,       \* rerank_candidates: the [question, txt] pairs (txt only)
    CE,          \* module global _CE: "None" or "model"
    scores,      \* rerank_candidates: what ce.predict returned
    elapsed_ms,  \* rerank_candidates: elapsed_ms measured after predict
    ceFailure,   \* how the scoring provider failed in this call, "none" if it did not
    path,        \* which return of rerank_candidates was taken
    calls,       \* number of calls of each collaborator made so far
    FINAL_K,     \* module constant FINAL_K = int(os.getenv("FINAL_K", "5"))
    top_docs,    \* retrieve_and_answer: ranked[:FINAL_K]
    result,      \* value returned by retrieve_and_answer
    store,       \* the documents the collection holds nearest to the current question
    prev,        \* what the providers gave the previous call and what that call returned
    RUN_ID,      \* module global RUN_ID = sys.argv[1], "None" without an argument
    env,         \* os.environ: the variables RUN_ID and SITE_NAME, "None" when unset
    find_filter, \* the filter of the last collection.find
    threads,     \* server.py: the worker threads serving POST /answer
    ce_built,    \* number of CrossEncoder objects constructed by get_ce in the server
    watsonx,     \* module globals IBM_API_KEY, WATSONX_URL, WATSONX_PROJECT_ID: set or not
    clock,       \* server.py: the wall clock, in ticks
    pipeline_status, \* server.py: the dict pipeline_status, run_id -> entry
    history,     \* server.py: what pipeline_history.json holds
    tasks,       \* server.py: the background tasks running run_pipeline_background
    data_dirs,   \* the run ids for which a directory data/<run_id> exists
    module,      \* query_astra_llm as imported by the server: SITE_NAME and collection
    ASTRA_DB_API_ENDPOINT, \* os.environ: the database endpoint, "None" when unset
    answer_req,  \* server.py: the POST /answer request being served beside the pipelines
    crawl_pc,    \* crawl.py: position in crawl(): "idle", "manual", "loop" or "done"
    start_url,   \* crawl: start_url
    max_depth,   \* crawl: max_depth
    max_pages,   \* crawl: max_pages
    MANUAL_URLS, \* crawl.py: module global MANUAL_URLS
    manual_i,    \* fetch_and_save_manual: index of the next url of MANUAL_URLS
    count,       \* fetch_and_save_manual: count
    queue,       \* crawl: the deque q of (url, depth) pairs
    seen,        \* crawl: seen
    crawled,     \* crawl: crawled
    fetched,     \* the (url, depth) pairs the loop called fetch for, in order
    pages        \* the (url, links) items the loop saved, in order

vars == <<pc, question, terms, cands, gated, ranked, pairs, CE, scores, elapsed_ms,
          ceFailure, path, calls, FINAL_K, top_docs, result, store, prev, RUN_ID, env,
          find_filter, threads, ce_built, watsonx, clock, pipeline_status, history, tasks,
          data_dirs, module, ASTRA_DB_API_ENDPOINT, answer_req, crawl_pc, start_url,
          max_depth, max_pages, MANUAL_URLS, manual_i, count, queue, seen, crawled, fetched,
          pages>>

\* the variables of crawl.py
crawlVars == <<crawl_pc, start_url, max_depth, max_pages, MANUAL_URLS, manual_i, count,
               queue, seen, crawled, fetched, pages>>

\* the variables of the pipeline management of server.py
pipelineVars == <<clock, pipeline_status, history, tasks, data_dirs, module,
                  ASTRA_DB_API_ENDPOINT, answer_req>>

\* the variables of the process and of the server around one call
processVars == <<RUN_ID, env, threads, ce_built, watsonx, pipelineVars, crawlVars>>

----------------------------------------------------------------------------
(* Bounds of the model *)

\* longest candidate list handed to keyword_gate on its own
MaxGateCands == 3

\* longest candidate list handed to rerank_candidates on its own
MaxRerankCands == 2

\* most documents the vector search returns
MaxStoreDocs == 2

\* the most pieces a question of the term extraction is joined from
MaxSegments == 3

----------------------------------------------------------------------------
(* Configuration *)

\* CANDIDATE_K = int(os.getenv("CANDIDATE_K", "40"))
CANDIDATE_K == 40

\* CE_TIMEOUT_MS = int(os.getenv("CE_TIMEOUT_MS", "300"))
CE_TIMEOUT_MS == 300

\* the character budget of a pair: (c.get("text") or "")[:1200]
PAIR_TEXT_CHARS == 1200

----------------------------------------------------------------------------
(* Python str operations *)

UpperLetters == <<"A", "B", "C", "D", "E", "F", "G", "H", "I", "J", "K", "L", "M",
                  "N", "O", "P", "Q", "R", "S", "T", "U", "V", "W", "X", "Y", "Z">>
LowerLetters == <<"a", "b", "c", "d", "e", "f", "g", "h", "i", "j", "k", "l", "m",
                  "n", "o", "p", "q", "r", "s", "t", "u", "v", "w", "x", "y", "z">>
Digits == {"0", "1", "2", "3", "4", "5", "6", "7", "8", "9"}
Whitespace == {" ", "\t", "\n"}
Quote == "\""

\* str.lower() on one character
LowerChar(ch) ==
    IF \E i \in 1..Len(UpperLetters) : UpperLetters[i] = ch
    THEN LowerLetters[CHOOSE i \in 1..Len(UpperLetters) : UpperLetters[i] = ch]
    ELSE ch

\* str.lower()
Lower(s) == [i \in 1..Len(s) |-> LowerChar(s[i])]

\* s[:n] for n >= 0
Prefix(s, n) == SubSeq(s, 1, IF n < Len(s) THEN n ELSE Len(s))

\* whether sub occurs in s starting at index p (1-based)
OccursAt(sub, s, p) ==
    /\ p >= 1
    /\ p + Len(sub) - 1 <= Len(s)
    /\ \A k \in 1..Len(sub) : s[p + k - 1] = sub[k]

\* Python: sub in s
Contains(s, sub) == \E p \in 1..(Len(s) + 1) : OccursAt(sub, s, p)

\* regex \w on one character
IsWordChar(ch) ==
    \/ \E i \in 1..Len(LowerLetters) : LowerLetters[i] = ch
    \/ \E i \in 1..Len(UpperLetters) : UpperLetters[i] = ch
    \/ ch \in Digits
    \/ ch = "_"

\* whether the character at index i of s exists and is a \w character
WordAt(s, i) == i >= 1 /\ i <= Len(s) /\ IsWordChar(s[i])

\* regex \b between index i-1 and index i of s
Boundary(s, i) == WordAt(s, i - 1) # WordAt(s, i)

\* re.search(r"\b" + re.escape(term) + r"\b", s) is not None
SearchWholeWord(term, s) ==
    \E p \in 1..(Len(s) + 1) :
        /\ OccursAt(term, s, p)
        /\ Boundary(s, p)
        /\ Boundary(s, p + Len(term))

----------------------------------------------------------------------------
(* extract_query_terms *)

\* the longest result of extract_query_terms: ordered[:10]
MAX_TERMS == 10

\* the shortest word kept: len(w) >= 3
MIN_WORD_LEN == 3

STOPWORDS == {
    <<"t", "h", "e">>, <<"a">>, <<"a", "n">>, <<"a", "n", "d">>, <<"o", "r">>,
      <<"o", "f">>, <<"f", "o", "r">>, <<"t", "o">>, <<"i", "n">>, <<"o", "n">>,
      <<"a", "t">>, <<"b", "y">>, <<"w", "i", "t", "h">>, <<"f", "r", "o", "m">>,
      <<"a", "b", "o", "u", "t">>, <<"w", "h", "a", "t">>, <<"w", "h", "i", "c", "h">>,
      <<"w", "h", "o">>, <<"w", "h", "o", "m">>, <<"w", "h", "o", "s", "e">>,
      <<"i", "s">>, <<"a", "r", "e">>, <<"w", "a", "s">>, <<"w", "e", "r", "e">>,
      <<"b", "e">>, <<"b", "e", "e", "n">>, <<"b", "e", "i", "n", "g">>, <<"d", "o">>,
      <<"d", "o", "e", "s">>, <<"d", "i", "d">>, <<"c", "a", "n">>,
      <<"c", "o", "u", "l", "d">>, <<"s", "h", "o", "u", "l", "d">>,
      <<"w", "o", "u", "l", "d">>, <<"m", "a", "y">>, <<"m", "i", "g", "h", "t">>,
      <<"w", "i", "l", "l">>, <<"s", "h", "a", "l", "l">>, <<"w", "e">>,
      <<"o", "u", "r">>, <<"u", "s">>, <<"y", "o", "u">>, <<"y", "o", "u", "r">>,
      <<"t", "h", "e", "y">>, <<"t", "h", "e", "i", "r">>, <<"i", "t">>,
      <<"i", "t", "s">>, <<"t", "h", "i", "s">>, <<"t", "h", "a", "t">>,
      <<"t", "h", "e", "s", "e">>, <<"t", "h", "o", "s", "e">>,
      <<"p", "l", "e", "a", "s", "e">>, <<"s", "h", "o", "w">>, <<"t", "e", "l", "l">>,
      <<"g", "i", "v", "e">>, <<"l", "i", "s", "t">>,
      <<"e", "x", "p", "l", "a", "i", "n">>, <<"h", "o", "w">>, <<"w", "h", "y">>,
      <<"w", "h", "e", "n">> }

\* q.strip()
RECURSIVE LStrip(_)
LStrip(s) == IF s # <<>> /\ Head(s) \in Whitespace THEN LStrip(Tail(s)) ELSE s
RECURSIVE RStrip(_)
RStrip(s) ==
    IF s # <<>> /\ s[Len(s)] \in Whitespace THEN RStrip(SubSeq(s, 1, Len(s) - 1)) ELSE s
Strip(s) == RStrip(LStrip(s))

\* the index of the first quote of s after index i, 0 when there is none
NextQuote(s, i) ==
    IF \E j \in (i + 1)..Len(s) : s[j] = Quote
    THEN CHOOSE j \in (i + 1)..Len(s) :
            s[j] = Quote /\ \A k \in (i + 1)..(j - 1) : s[k] # Quote
    ELSE 0

\* where the leftmost match of "[^"]+" in s at index i or later starts: at the
\* first quote that is followed by one character or more and then a quote; 0
\* when there is no match
FirstMatch(s, i) ==
    LET starts == { p \in i..Len(s) : s[p] = Quote /\ NextQuote(s, p) > p + 1 }
    IN  IF starts = {} THEN 0 ELSE CHOOSE p \in starts : \A r \in starts : p <= r

RECURSIVE ScanQuotes(_, _)
\* the left-to-right matches of "[^"]+" in s from index i on:
\* phrases = re.findall(r'"([^"]+)"', q), rest = re.sub(r'"[^"]+"', " ", q)
ScanQuotes(s, i) ==
    LET p == FirstMatch(s, i)
    IN  IF p = 0 THEN [phrases |-> <<>>, rest |-> SubSeq(s, i, Len(s))]
        ELSE LET j == NextQuote(s, p)
                 r == ScanQuotes(s, j + 1)
             IN  [phrases |-> <<SubSeq(s, p + 1, j - 1)>> \o r.phrases,
                  rest |-> SubSeq(s, i, p - 1) \o <<" ">> \o r.rest]

\* a character the split pattern [^\w+]+ does not split on: \w or "+"
IsTokenChar(ch) == IsWordChar(ch) \/ ch = "+"

\* the non-empty pieces of re.split(r"[^\w+]+", s): the maximal runs of
\* characters the pattern does not split on, in order
SplitTokens(s) ==
    LET starts == { i \in 1..Len(s) :
                      IsTokenChar(s[i]) /\ (i = 1 \/ ~IsTokenChar(s[i - 1])) }
        start(k) == CHOOSE i \in starts : Cardinality({ j \in starts : j < i }) = k - 1
        end(i) == CHOOSE j \in i..Len(s) :
                      /\ \A k \in i..j : IsTokenChar(s[k])
                      /\ (j = Len(s) \/ ~IsTokenChar(s[j + 1]))
    IN  [k \in 1..Cardinality(starts) |-> SubSeq(s, start(k), end(start(k)))]

RECURSIVE Dedupe(_, _)
\* the seen/ordered loop: tokens in order, each kept at its first occurrence
Dedupe(tokens, ordered) ==
    IF tokens = <<>> THEN ordered
    ELSE IF \E k \in 1..Len(ordered) : ordered[k] = Head(tokens)
         THEN Dedupe(Tail(tokens), ordered)
         ELSE Dedupe(Tail(tokens), Append(ordered, Head(tokens)))

\* extract_query_terms without the cut ordered[:10]
extract_query_terms_uncut(q0) ==
    LET q == Strip(q0)
        scan == ScanQuotes(q, 1)
        raw == SplitTokens(Lower(scan.rest))
        words == SelectSeq(raw, LAMBDA w : Len(w) >= MIN_WORD_LEN /\ w \notin STOPWORDS)
        kept == SelectSeq(scan.phrases, LAMBDA ph : Strip(ph) # <<>>)
        phrases == [k \in 1..Len(kept) |-> Lower(Strip(kept[k]))]
    IN  Dedupe(phrases \o words, <<>>)

\* extract_query_terms reading words + phrases
extract_query_terms_words_first(q0) ==
    LET q == Strip(q0)
        scan == ScanQuotes(q, 1)
        raw == SplitTokens(Lower(scan.rest))
        words == SelectSeq(raw, LAMBDA w : Len(w) >= MIN_WORD_LEN /\ w \notin STOPWORDS)
        kept == SelectSeq(scan.phrases, LAMBDA ph : Strip(ph) # <<>>)
        phrases == [k \in 1..Len(kept) |-> Lower(Strip(kept[k]))]
    IN  Prefix(Dedupe(words \o phrases, <<>>), MAX_TERMS)

extract_query_terms(q0) ==
    LET q == Strip(q0)
        scan == ScanQuotes(q, 1)
        raw == SplitTokens(Lower(scan.rest))
        words == SelectSeq(raw, LAMBDA w : Len(w) >= MIN_WORD_LEN /\ w \notin STOPWORDS)
        kept == SelectSeq(scan.phrases, LAMBDA ph : Strip(ph) # <<>>)
        phrases == [k \in 1..Len(kept) |-> Lower(Strip(kept[k]))]
    IN  Prefix(Dedupe(phrases \o words, <<>>), MAX_TERMS)

\* the questions asked
Questions == {
    <<>>,
    <<"\"", "a", "\"">>,
    <<"\"", "a", "\"", " ", "\"", "B", "\"">>,
    <<"\"", "A", " ", "b", "\"">>,
    <<"t", "h", "e", " ", "\"", "b", "\"", " ", "a", "b", "b">>,
    <<"\"", "a", " ", "b", "\"", " ", "\"", "a", "\"">> }

----------------------------------------------------------------------------
(* Candidates *)

\* (c.get("text") or "")
TextOrEmpty(c) == IF c.hasText THEN c.text ELSE <<>>

\* float(c.get("$similarity", 0.0))
SimOrZero(c) == IF c.hasSim THEN c.sim ELSE 0

\* x.get("_rerank_score", 0.0)
RerankScoreOrZero(c) == IF c.hasScore THEN c.score ELSE 0

\* a document as collection.find returns it
Doc(i, hasText, text, hasSim, sim) ==
    [id |-> i, hasText |-> hasText, text |-> text, hasSim |-> hasSim, sim |-> sim,
     hasScore |-> FALSE, score |-> 0]

----------------------------------------------------------------------------
(* keyword_gate *)

\* hits = sum(1 for term in terms if term in t)
Hits(ts, t) == Cardinality({k \in 1..Len(ts) : Contains(t, ts[k])})

\* GatePasses with the any-term test whatever the number of terms
GatePassesAny(c, ts) == Hits(ts, Lower(TextOrEmpty(c))) >= 1

\* the test of the loop body: whether candidate c is appended to out
GatePasses(c, ts) ==
    LET t == Lower(TextOrEmpty(c))
        hits == Hits(ts, t)
        require_all == Len(ts) >= 2
    IN  \/ (require_all /\ hits = Len(ts))
        \/ (~require_all /\ hits >= 1)

RECURSIVE GateLoopPrepend(_, _)
\* GateLoop with out.insert(0, c) in place of out.append(c)
GateLoopPrepend(cs, ts) ==
    IF cs = <<>> THEN <<>>
    ELSE GateLoopPrepend(Tail(cs), ts)
         \o (IF GatePasses(Head(cs), ts) THEN <<Head(cs)>> ELSE <<>>)

RECURSIVE GateLoop(_, _)
\* the for loop: the candidates that pass, in input order
GateLoop(cs, ts) ==
    IF cs = <<>> THEN <<>>
    ELSE (IF GatePasses(Head(cs), ts) THEN <<Head(cs)>> ELSE <<>>)
         \o GateLoop(Tail(cs), ts)

\* keyword_gate returning out also when out is empty
keyword_gate_no_fallback(cs, ts) ==
    IF cs = <<>> \/ ts = <<>> THEN cs ELSE GateLoop(cs, ts)

\* keyword_gate returning [] from its first test
keyword_gate_empty_early(cs, ts) ==
    IF cs = <<>> \/ ts = <<>> THEN <<>>
    ELSE LET out == GateLoop(cs, ts)
         IN  IF out # <<>> THEN out ELSE cs

\* lines 135-146
keyword_gate(cs, ts) ==
    IF cs = <<>> \/ ts = <<>> THEN cs
    ELSE LET out == GateLoop(cs, ts)
         IN  IF out # <<>> THEN out ELSE cs

----------------------------------------------------------------------------
(* keyword_overlap_score and the two sorts of rerank_candidates *)

RECURSIVE ScoreLoop(_, _)
\* the for loop of keyword_overlap_score over query_terms, on the lower-cased text
ScoreLoop(ts, t) ==
    IF ts = <<>> THEN 0
    ELSE LET term == Head(ts)
             gain == IF \E k \in 1..Len(term) : term[k] = " "
                     THEN (IF Contains(t, term) THEN 2 ELSE 0)
                     ELSE (IF SearchWholeWord(term, t) THEN 1 ELSE 0)
         IN  gain + ScoreLoop(Tail(ts), t)

\* keyword_overlap_score(query_terms, c.get("text", "")); 2.0 and 1.0 are 2 and 1
keyword_overlap_score(ts, c) ==
    IF ts = <<>> \/ ~c.hasText \/ c.text = <<>> THEN 0
    ELSE ScoreLoop(ts, Lower(c.text))

\* Python's < on two tuples of numbers of the same length
KeyLess(a, b) ==
    \E i \in 1..Len(a) : a[i] < b[i] /\ \A j \in 1..(i - 1) : a[j] = b[j]

RECURSIVE InsertDesc(_, _)
\* x placed after every element whose key is not smaller than its own
InsertDesc(sorted, x) ==
    IF sorted = <<>> THEN <<x>>
    ELSE IF KeyLess(Head(sorted).key, x.key) THEN <<x>> \o sorted
    ELSE <<Head(sorted)>> \o InsertDesc(Tail(sorted), x)

RECURSIVE SortDescStable(_)
\* list.sort(key=..., reverse=True) / sorted(..., reverse=True): descending by
\* key, elements with equal keys in their original order
SortDescStable(xs) ==
    IF xs = <<>> THEN <<>>
    ELSE InsertDesc(SortDescStable(SubSeq(xs, 1, Len(xs) - 1)), xs[Len(xs)])

\* FallbackKey with the similarity as the primary component
FallbackKeySwapped(c, ts) == <<SimOrZero(c), keyword_overlap_score(ts, c)>>

\* the key of the fallback sort: (x[0], x[1]) = (s_kw, s_vec)
FallbackKey(c, ts) == <<keyword_overlap_score(ts, c), SimOrZero(c)>>

\* fallback_order keeping only the candidates with a keyword hit
fallback_order_hits_only(cs, ts) ==
    LET kept == SelectSeq(cs, LAMBDA c : keyword_overlap_score(ts, c) > 0)
        scored == [i \in 1..Len(kept) |-> [key |-> FallbackKey(kept[i], ts), c |-> kept[i]]]
        sorted == SortDescStable(scored)
    IN  [i \in 1..Len(sorted) |-> sorted[i].c]

\* the except branch: scored, scored.sort(...), [c for _, __, c in scored]
fallback_order(cs, ts) ==
    LET scored == [i \in 1..Len(cs) |-> [key |-> FallbackKey(cs[i], ts), c |-> cs[i]]]
        sorted == SortDescStable(scored)
    IN  [i \in 1..Len(sorted) |-> sorted[i].c]

\* the key of the primary sort: x.get("_rerank_score", 0.0)
PrimaryKey(c) == <<RerankScoreOrZero(c)>>

\* ApplyScores pairing the candidates with the scores read from the end
ApplyScoresReversed(cs, sc) ==
    [i \in 1..Len(cs) |->
        IF i <= Len(sc) THEN [cs[i] EXCEPT !.hasScore = TRUE, !.score = sc[Len(sc) + 1 - i]]
        ELSE cs[i]]

\* for c, s in zip(candidates, scores): c["_rerank_score"] = float(s)
ApplyScores(cs, sc) ==
    [i \in 1..Len(cs) |->
        IF i <= Len(sc) THEN [cs[i] EXCEPT !.hasScore = TRUE, !.score = sc[i]]
        ELSE cs[i]]

\* the try branch after the budget test: apply the scores, sorted(...)
primary_order(cs, sc) ==
    LET scoredCs == ApplyScores(cs, sc)
        keyed == [i \in 1..Len(cs) |-> [key |-> PrimaryKey(scoredCs[i]), c |-> scoredCs[i]]]
        sorted == SortDescStable(keyed)
    IN  [i \in 1..Len(sorted) |-> sorted[i].c]

\* OverBudget with the elapsed time left in seconds
OverBudgetSeconds(ms) == (ms \div 1000) > CE_TIMEOUT_MS

\* elapsed_ms > CE_TIMEOUT_MS
OverBudget(ms) == ms > CE_TIMEOUT_MS

----------------------------------------------------------------------------
(* Inputs *)

\* texts of stored chunks
Texts == { <<>>, <<"a">>, <<"b">>, <<"a", "b">>, <<"A", " ", "b">>, <<"b", " ", "a">> }

\* terms as extract_query_terms produces them: lower-case, stripped, non-empty;
\* a one- or two-character term or a term with a space comes from a quoted phrase
TermPool == { <<"a">>, <<"b">>, <<"a", " ", "b">> }

\* sequences of distinct terms (extract_query_terms de-duplicates)
TermLists ==
    {<<>>} \cup { <<t>> : t \in TermPool }
           \cup { <<t, u>> : <<t, u>> \in { p \in TermPool \X TermPool : p[1] # p[2] } }

\* the documents a find() without include_similarity returns: no "$similarity"
PlainDocs ==
    { Doc(0, TRUE, t, FALSE, 0) : t \in Texts } \cup { Doc(0, FALSE, <<>>, FALSE, 0) }

\* texts and similarities of the candidates handed to rerank_candidates
RerankTexts == { <<"a">>, <<"a", "b">>, <<"A", " ", "b">> }
SimValues == {1, 2}

ScoredDocs ==
    { Doc(0, TRUE, t, FALSE, 0) : t \in RerankTexts }
        \cup { Doc(0, TRUE, t, TRUE, s) : t \in RerankTexts, s \in SimValues }
        \cup { Doc(0, FALSE, <<>>, FALSE, 0) }

\* candidate sequences of length at most n over docs; the i-th candidate has id i
CandSeqs(docs, n) ==
    UNION { { [i \in 1..k |-> [f[i] EXCEPT !.id = i]] : f \in [1..k -> docs] } : k \in 0..n }

\* what ce.predict can return for n pairs: one score per pair
ScoreValues == {0, 1}
ScoreVectors(n) == [1..n -> ScoreValues]

\* elapsed times around the budget
ElapsedValues == {CE_TIMEOUT_MS, CE_TIMEOUT_MS + 1}

NoCalls == [search |-> 0, gate |-> 0, rerank |-> 0, get_ce |-> 0, ce_load |-> 0, predict |-> 0,
            answer |-> 0]

NoResult == [kind |-> "none", answer |-> "", sources |-> <<>>]

\* the collection before the first find for the current question: which documents
\* are nearest is settled by that find and stays as it is for the question
NoStore == [read |-> FALSE, docs |-> <<>>]

\* no earlier call of retrieve_and_answer
NoPrev == [valid |-> FALSE, scores |-> <<>>, ceFailure |-> "none", elapsed_ms |-> 0,
           result |-> NoResult]

\* os.environ with neither RUN_ID nor SITE_NAME set
NoEnv == [RUN_ID |-> "None", SITE_NAME |-> "None"]

\* IBM_API_KEY, WATSONX_URL and WATSONX_PROJECT_ID all set
FullConfig == [IBM_API_KEY |-> TRUE, WATSONX_URL |-> TRUE, WATSONX_PROJECT_ID |-> TRUE]

\* the error watsonx_chat_call raises before any request when a setting is missing:
\* line 63 tests the endpoint and the project first, get_watsonx_token line 51 the key
MissingConfig(w) ==
    IF ~w.WATSONX_URL \/ ~w.WATSONX_PROJECT_ID
    THEN "Missing WATSONX_URL or WATSONX_PROJECT_ID"
    ELSE IF ~w.IBM_API_KEY THEN "Missing IBM_API_KEY" ELSE "none"

\* background tasks of the server
MaxRuns == 2

TaskIds == 1..MaxRuns

\* a background task that was not added yet
NoTask == [pc |-> "none", run_id |-> -1, site |-> "None", child |-> "not started",
           RUN_ID |-> -1, returncode |-> -1]

\* query_astra_llm before its first import by the server
NotImported == [imported |-> FALSE, SITE_NAME |-> "None", collection |-> "None"]

\* no POST /answer being served
NoAnswerReq == [pc |-> "idle", filter_site |-> "None", endpoint |-> "None",
                searched |-> "None", system_site |-> "None"]

\* server.py lines 37-39 and 107: nothing started, no run known
PipelineIdle ==
    /\ clock = 0
    /\ pipeline_status = <<>>
    /\ history = <<>>
    /\ tasks = [i \in TaskIds |-> NoTask]
    /\ data_dirs = {}
    /\ module = NotImported
    /\ ASTRA_DB_API_ENDPOINT = "None"
    /\ answer_req = NoAnswerReq

\* a URL is a record of its netloc, its path and its fragment ("" for none)
NoUrl == [netloc |-> "", path |-> "", frag |-> ""]

\* crawl.py not running
CrawlIdle ==
    /\ crawl_pc = "idle"
    /\ start_url = NoUrl
    /\ max_depth = 0
    /\ max_pages = 0
    /\ MANUAL_URLS = <<>>
    /\ manual_i = 1
    /\ count = 0
    /\ queue = <<>>
    /\ seen = {}
    /\ crawled = 0
    /\ fetched = <<>>
    /\ pages = <<>>

\* no collection.find issued yet
NoFilter == [issued |-> FALSE, site_name |-> "", has_run_id |-> FALSE, run_id |-> ""]

\* the worker threads of the server
Threads == {1, 2}

\* a worker thread between two requests
IdleThread == [pc |-> "idle", run_id |-> "None", overlapped |-> FALSE, filter |-> NoFilter,
               found |-> 0, ce |-> "None", failed |-> "none", status |-> 0, body |-> "none"]

NoThreads == [t \in Threads |-> IdleThread]

\* lines 117-118 and 123-125: the filter vector_candidate_search builds from the
\* environment e: site_name always, run_id only "if run_id"
FindFilter(e) ==
    [issued |-> TRUE,
     site_name |-> IF e.SITE_NAME = "None" THEN "unknown_site" ELSE e.SITE_NAME,
     has_run_id |-> e.RUN_ID # "None",
     run_id |-> IF e.RUN_ID # "None" THEN e.RUN_ID ELSE ""]

----------------------------------------------------------------------------
(* rerank_candidates(question, gated, terms), step by step *)

\* RerankEntry without the test for an empty candidate list
RerankEntryNoEmptyTest ==
    /\ pc = "rerank"
    /\ calls' = [calls EXCEPT !.rerank = @ + 1]
    /\ pairs' = [i \in 1..Len(gated) |-> Prefix(TextOrEmpty(gated[i]), PAIR_TEXT_CHARS)]
    /\ pc' = "get_ce"
    /\ UNCHANGED <<ranked, path>>
    /\ UNCHANGED <<question, terms, cands, gated, CE, scores, elapsed_ms, ceFailure, FINAL_K,
                   top_docs, result>>
    /\ UNCHANGED <<store, prev, find_filter, processVars>>

\* lines 164-173: the empty test, the pairs, start = time.time()
RerankEntry ==
    /\ pc = "rerank"
    /\ calls' = [calls EXCEPT !.rerank = @ + 1]
    /\ IF gated = <<>>
       THEN /\ ranked' = <<>>
            /\ path' = "empty"
            /\ pc' = "ranked"
            /\ UNCHANGED pairs
       ELSE /\ pairs' = [i \in 1..Len(gated) |-> Prefix(TextOrEmpty(gated[i]), PAIR_TEXT_CHARS)]
            /\ pc' = "get_ce"
            /\ UNCHANGED <<ranked, path>>
    /\ UNCHANGED <<question, terms, cands, gated, CE, scores, elapsed_ms, ceFailure, FINAL_K,
                   top_docs, result>>
    /\ UNCHANGED <<store, prev, find_filter, processVars>>

\* get_ce called before the try of rerank_candidates: a constructor that raises
\* ends retrieve_and_answer
get_ce_outside_try ==
    /\ pc = "get_ce"
    /\ \/ /\ CE # "None"
          /\ calls' = [calls EXCEPT !.get_ce = @ + 1]
          /\ pc' = "predict"
          /\ UNCHANGED <<CE, ceFailure, result>>
       \/ /\ CE = "None"
          /\ calls' = [calls EXCEPT !.get_ce = @ + 1, !.ce_load = @ + 1]
          /\ CE' = "model"
          /\ pc' = "predict"
          /\ UNCHANGED <<ceFailure, result>>
       \/ /\ CE = "None"
          /\ calls' = [calls EXCEPT !.get_ce = @ + 1, !.ce_load = @ + 1]
          /\ ceFailure' = "load"
          /\ pc' = "raised"
          /\ result' = [kind |-> "error", answer |-> "", sources |-> <<>>]
          /\ UNCHANGED CE
    /\ UNCHANGED <<question, terms, cands, gated, ranked, pairs, scores, elapsed_ms, path,
                   FINAL_K, top_docs>>
    /\ UNCHANGED <<store, prev, find_filter, processVars>>

\* get_ce(): the model is constructed on first use, and the constructor may raise
get_ce ==
    /\ pc = "get_ce"
    /\ \/ /\ CE # "None"
          /\ calls' = [calls EXCEPT !.get_ce = @ + 1]
          /\ pc' = "predict"
          /\ UNCHANGED <<CE, ceFailure>>
       \/ /\ CE = "None"
          /\ calls' = [calls EXCEPT !.get_ce = @ + 1, !.ce_load = @ + 1]
          /\ CE' = "model"
          /\ pc' = "predict"
          /\ UNCHANGED ceFailure
       \/ /\ CE = "None"
          /\ calls' = [calls EXCEPT !.get_ce = @ + 1, !.ce_load = @ + 1]
          /\ ceFailure' = "load"
          /\ pc' = "fallback"
          /\ UNCHANGED CE
    /\ UNCHANGED <<question, terms, cands, gated, ranked, pairs, scores, elapsed_ms, path,
                   FINAL_K, top_docs, result>>
    /\ UNCHANGED <<store, prev, find_filter, processVars>>

\* scores = ce.predict(pairs); elapsed_ms = (time.time() - start) * 1000.0
predict ==
    /\ pc = "predict"
    /\ calls' = [calls EXCEPT !.predict = @ + 1]
    /\ \/ /\ ceFailure' = "predict"
          /\ pc' = "fallback"
          /\ UNCHANGED <<scores, elapsed_ms>>
       \/ /\ \E sc \in ScoreVectors(Len(pairs)), ms \in ElapsedValues :
                 /\ scores' = sc
                 /\ elapsed_ms' = ms
          /\ pc' = "budget"
          /\ UNCHANGED ceFailure
    /\ UNCHANGED <<question, terms, cands, gated, ranked, pairs, CE, path, FINAL_K, top_docs,
                   result>>
    /\ UNCHANGED <<store, prev, find_filter, processVars>>

\* BudgetAndSort with the load of the model counted against the budget: the call
\* that constructed the model is always over budget
BudgetAndSortLoadCounts ==
    /\ pc = "budget"
    /\ IF OverBudget(elapsed_ms) \/ calls.ce_load > 0
       THEN /\ ceFailure' = "timeout"
            /\ pc' = "fallback"
            /\ UNCHANGED <<gated, ranked, path>>
       ELSE /\ gated' = ApplyScores(gated, scores)
            /\ ranked' = primary_order(gated, scores)
            /\ path' = "primary"
            /\ pc' = "ranked"
            /\ UNCHANGED ceFailure
    /\ UNCHANGED <<question, terms, cands, pairs, CE, scores, elapsed_ms, calls, FINAL_K,
                   top_docs, result>>
    /\ UNCHANGED <<store, prev, find_filter, processVars>>

\* BudgetAndSort with the scores written before the budget test
BudgetAndSortScoresFirst ==
    /\ pc = "budget"
    /\ gated' = ApplyScores(gated, scores)
    /\ IF OverBudget(elapsed_ms)
       THEN /\ ceFailure' = "timeout"
            /\ pc' = "fallback"
            /\ UNCHANGED <<ranked, path>>
       ELSE /\ ranked' = primary_order(gated, scores)
            /\ path' = "primary"
            /\ pc' = "ranked"
            /\ UNCHANGED ceFailure
    /\ UNCHANGED <<question, terms, cands, pairs, CE, scores, elapsed_ms, calls, FINAL_K,
                   top_docs, result>>
    /\ UNCHANGED <<store, prev, find_filter, processVars>>

\* lines 178-182: the budget test, then the scores written into the candidate
\* dicts (the objects of the list the caller passed) and the list sorted
BudgetAndSort ==
    /\ pc = "budget"
    /\ IF OverBudget(elapsed_ms)
       THEN /\ ceFailure' = "timeout"
            /\ pc' = "fallback"
            /\ UNCHANGED <<gated, ranked, path>>
       ELSE /\ gated' = ApplyScores(gated, scores)
            /\ ranked' = primary_order(gated, scores)
            /\ path' = "primary"
            /\ pc' = "ranked"
            /\ UNCHANGED ceFailure
    /\ UNCHANGED <<question, terms, cands, pairs, CE, scores, elapsed_ms, calls, FINAL_K,
                   top_docs, result>>
    /\ UNCHANGED <<store, prev, find_filter, processVars>>

\* lines 183-191: except Exception, over the candidate dicts as they are now
Fallback ==
    /\ pc = "fallback"
    /\ ranked' = fallback_order(gated, terms)
    /\ path' = "fallback"
    /\ pc' = "ranked"
    /\ UNCHANGED <<question, terms, cands, gated, pairs, CE, scores, elapsed_ms, ceFailure, calls,
                   FINAL_K, top_docs, result>>
    /\ UNCHANGED <<store, prev, find_filter, processVars>>

----------------------------------------------------------------------------
(* keyword_gate applied to drawn inputs *)

InitGate ==
    /\ pc = "gate"
    /\ question = <<>>
    /\ terms \in TermLists
    /\ cands \in CandSeqs(PlainDocs, MaxGateCands)
    /\ gated = <<>>
    /\ ranked = <<>>
    /\ pairs = <<>>
    /\ CE = "None"
    /\ scores = <<>>
    /\ elapsed_ms = 0
    /\ ceFailure = "none"
    /\ path = "none"
    /\ calls = NoCalls
    /\ FINAL_K = 0
    /\ top_docs = <<>>
    /\ result = NoResult
    /\ store = NoStore
    /\ prev = NoPrev
    /\ RUN_ID = "None"
    /\ env = NoEnv
    /\ find_filter = NoFilter
    /\ threads = NoThreads
    /\ ce_built = 0
    /\ watsonx = FullConfig
    /\ PipelineIdle
    /\ CrawlIdle

\* gated = keyword_gate(cands, terms)
GateCall ==
    /\ pc = "gate"
    /\ gated' = keyword_gate(cands, terms)
    /\ calls' = [calls EXCEPT !.gate = @ + 1]
    /\ pc' = "gated"
    /\ UNCHANGED <<question, terms, cands, ranked, pairs, CE, scores, elapsed_ms, ceFailure, path,
                   FINAL_K, top_docs, result>>
    /\ UNCHANGED <<store, prev, find_filter, processVars>>

NextGate == GateCall

SpecGate == InitGate /\ [][NextGate]_vars

----------------------------------------------------------------------------
(* rerank_candidates applied to drawn inputs *)

InitRerank ==
    /\ pc = "rerank"
    /\ question = <<>>
    /\ terms \in TermLists
    /\ cands = <<>>
    /\ gated \in CandSeqs(ScoredDocs, MaxRerankCands)
    /\ ranked = <<>>
    /\ pairs = <<>>
    /\ CE \in {"None", "model"}
    /\ scores = <<>>
    /\ elapsed_ms = 0
    /\ ceFailure = "none"
    /\ path = "none"
    /\ calls = NoCalls
    /\ FINAL_K = 0
    /\ top_docs = <<>>
    /\ result = NoResult
    /\ store = NoStore
    /\ prev = NoPrev
    /\ RUN_ID = "None"
    /\ env = NoEnv
    /\ find_filter = NoFilter
    /\ threads = NoThreads
    /\ ce_built = 0
    /\ watsonx = FullConfig
    /\ PipelineIdle
    /\ CrawlIdle

NextRerank == RerankEntry \/ get_ce \/ predict \/ BudgetAndSort \/ Fallback

SpecRerank == InitRerank /\ [][NextRerank]_vars

----------------------------------------------------------------------------
(* Properties of keyword_gate (checked under SpecGate) *)

\* the term test as the design states it: text contains term, ignoring case
HasTerm(c, term) == Contains(Lower(TextOrEmpty(c)), Lower(term))

\* all terms hit when there are two or more terms, at least one hits otherwise
TermTest(c, ts) ==
    IF Len(ts) >= 2 THEN \A k \in 1..Len(ts) : HasTerm(c, ts[k])
    ELSE \E k \in 1..Len(ts) : HasTerm(c, ts[k])

\* the indices of cs whose candidate passes the term test
PassingIds(cs, ts) == { i \in 1..Len(cs) : TermTest(cs[i], ts) }

\* C1: for non-empty candidates keyword_gate returns a non-empty sequence, and
\* when no candidate passes the term test it returns the candidates in full
C1_GateNeverEmpties ==
    (pc = "gated" /\ cands # <<>>) =>
        /\ gated # <<>>
        /\ (PassingIds(cands, terms) = {} => gated = cands)

C1_Witness ==
    /\ pc = "gated"
    /\ Len(cands) = 2
    /\ Len(terms) = 2
    /\ PassingIds(cands, terms) = {}
    /\ gated = cands

\* C6: the sequence keyword_gate returns is a subsequence of its input: only
\* input candidates, each at most once, in the input's relative order
C6_GateSubsequence ==
    pc = "gated" =>
        /\ \A i \in 1..Len(gated) :
              /\ gated[i].id \in 1..Len(cands)
              /\ gated[i] = cands[gated[i].id]
        /\ \A i, j \in 1..Len(gated) : i < j => gated[i].id < gated[j].id

C6_Witness ==
    /\ pc = "gated"
    /\ Len(cands) = 3
    /\ Len(gated) = 2
    /\ gated[1] = cands[1]
    /\ gated[2] = cands[3]

\* C7: when some candidate passes the term test (all terms for two or more
\* terms, the term for one term), keyword_gate returns exactly the passing
\* candidates
C7_GateKeepsExactlyPassing ==
    (pc = "gated" /\ terms # <<>> /\ PassingIds(cands, terms) # {}) =>
        /\ { gated[i].id : i \in 1..Len(gated) } = PassingIds(cands, terms)
        /\ Len(gated) = Cardinality(PassingIds(cands, terms))

\* two terms, a candidate in upper case that holds both, one that holds only one
C7_Witness ==
    /\ pc = "gated"
    /\ terms = << <<"a">>, <<"b">> >>
    /\ Len(cands) = 2
    /\ cands[1].text = <<"a">>
    /\ cands[2].text = <<"A", " ", "b">>
    /\ Len(gated) = 1
    /\ gated[1] = cands[2]

\* C8: keyword_gate returns its input unchanged when terms is empty or
\* candidates is empty
C8_GateIdentityOnEmpty ==
    (pc = "gated" /\ (terms = <<>> \/ cands = <<>>)) => gated = cands

C8_Witness ==
    /\ pc = "gated"
    /\ terms = <<>>
    /\ Len(cands) = 3
    /\ gated = cands

----------------------------------------------------------------------------
(* Properties of rerank_candidates (checked under SpecRerank) *)

\* whether the scoring provider raised, or returned after more than the budget
ProviderFailed ==
    \/ ceFailure \in {"load", "predict"}
    \/ (calls.predict > 0 /\ ceFailure # "predict" /\ elapsed_ms > CE_TIMEOUT_MS)

\* candidate x is ahead of candidate y by keyword score, then similarity, then
\* position in the input
AheadInFallback(x, y, ts) ==
    LET kx == keyword_overlap_score(ts, x)
        ky == keyword_overlap_score(ts, y)
    IN  \/ kx > ky
        \/ (kx = ky /\ SimOrZero(x) > SimOrZero(y))
        \/ (kx = ky /\ SimOrZero(x) = SimOrZero(y) /\ x.id < y.id)

\* C3: when the provider raises or exceeds the budget, the returned order is the
\* fallback ordering, fixed by keyword score and similarity alone
C3_FailureGivesFallbackOrder ==
    (pc = "ranked" /\ gated # <<>> /\ ProviderFailed) =>
        /\ Len(ranked) = Len(gated)
        /\ \A i \in 1..Len(ranked) : ranked[i].id \in 1..Len(gated)
        /\ \A i, j \in 1..Len(ranked) :
              i < j => AheadInFallback(gated[ranked[i].id], gated[ranked[j].id], terms)

\* the provider answered too late with scores that favour the first candidate,
\* and the second candidate is returned first
C3_Witness ==
    /\ pc = "ranked"
    /\ Len(gated) = 2
    /\ calls.predict = 1
    /\ elapsed_ms > CE_TIMEOUT_MS
    /\ scores[1] > scores[2]
    /\ ranked[1].id = 2

\* C4: the fallback ordering is descending by (keyword score, similarity): the
\* higher keyword score first whatever the similarity, then the higher
\* similarity, and candidates equal on both in input order
C4_FallbackSortedByCompositeKey ==
    (pc = "ranked" /\ path = "fallback") =>
        \A i, j \in 1..Len(ranked) :
            i < j =>
                LET ki == keyword_overlap_score(terms, ranked[i])
                    kj == keyword_overlap_score(terms, ranked[j])
                    si == SimOrZero(ranked[i])
                    sj == SimOrZero(ranked[j])
                IN  /\ ki >= kj
                    /\ (ki = kj => si >= sj)
                    /\ ((ki = kj /\ si = sj) => ranked[i].id < ranked[j].id)

\* A (keyword 2, similarity 1) came second in the input and is returned before
\* B (keyword 1, similarity 2)
C4_Witness ==
    /\ pc = "ranked"
    /\ path = "fallback"
    /\ Len(ranked) = 2
    /\ ranked[1].id = 2
    /\ keyword_overlap_score(terms, ranked[1]) = 2
    /\ SimOrZero(ranked[1]) = 1
    /\ keyword_overlap_score(terms, ranked[2]) = 1
    /\ SimOrZero(ranked[2]) = 2

\* candidate x without its "_rerank_score"
Unscored(x) == [x EXCEPT !.hasScore = FALSE, !.score = 0]

\* C5: on either path the returned sequence is a permutation of the input
C5_RerankPermutes ==
    pc = "ranked" =>
        /\ Len(ranked) = Len(gated)
        /\ { ranked[i].id : i \in 1..Len(ranked) } = 1..Len(gated)
        /\ \A i \in 1..Len(ranked) :
              ranked[i].id \in 1..Len(gated) =>
                  Unscored(ranked[i]) = Unscored(gated[ranked[i].id])

C5_Witness ==
    /\ pc = "ranked"
    /\ path = "primary"
    /\ Len(gated) = 2
    /\ ranked[1].id = 2
    /\ ranked[2].id = 1

\* C9: with no candidates rerank_candidates returns the empty sequence and the
\* scoring model is neither loaded nor invoked
C9_EmptyRerankNoModel ==
    (pc = "ranked" /\ gated = <<>>) =>
        /\ ranked = <<>>
        /\ calls.get_ce = 0
        /\ calls.ce_load = 0
        /\ calls.predict = 0
        /\ scores = <<>>

C9_Witness ==
    /\ pc = "ranked"
    /\ gated = <<>>
    /\ terms # <<>>
    /\ CE = "None"
    /\ calls.rerank = 1
    /\ ranked = <<>>

\* C20: when rerank_candidates takes the fallback path, after the provider
\* raised or the budget was exceeded, no returned candidate and no candidate of
\* the caller's list carries a rerank score; on the primary path every returned
\* candidate carries one and the order is descending by it
C20_ScoresOnAllOrOnNone ==
    /\ (pc = "fallback" => \A i \in 1..Len(gated) : ~gated[i].hasScore)
    /\ ((pc = "ranked" /\ path = "fallback") =>
            /\ \A i \in 1..Len(ranked) : ~ranked[i].hasScore
            /\ \A i \in 1..Len(gated) : ~gated[i].hasScore)
    /\ ((pc = "ranked" /\ path = "primary") =>
            /\ \A i \in 1..Len(ranked) : ranked[i].hasScore
            /\ \A i, j \in 1..Len(ranked) : i < j => ranked[i].score >= ranked[j].score)

\* the provider returned two different scores after the budget had passed: the
\* fallback path returns both candidates without a score
C20_Witness ==
    /\ pc = "ranked"
    /\ path = "fallback"
    /\ ceFailure = "timeout"
    /\ Len(scores) = 2
    /\ scores[1] # scores[2]
    /\ Len(ranked) = 2
    /\ ~ranked[1].hasScore
    /\ ~ranked[2].hasScore

\* C21: when the provider returned and the time measured after its return is
\* within the budget, the i-th score is the rerank score of the i-th input
\* candidate, every candidate has one, and the output is in non-increasing
\* order of it; the scoring call is never cut short: the budget is only tested
\* once the provider has returned one score per pair
C21_ScoresAttachedInOrder ==
    /\ ((pc = "ranked" /\ gated # <<>> /\ calls.predict = 1 /\ ceFailure # "predict"
             /\ elapsed_ms <= CE_TIMEOUT_MS) =>
            /\ path = "primary"
            /\ Len(scores) = Len(gated)
            /\ \A i \in 1..Len(gated) :
                  gated[i].id = i /\ gated[i].hasScore /\ gated[i].score = scores[i]
            /\ \A i \in 1..Len(ranked) :
                  /\ ranked[i].id \in 1..Len(gated)
                  /\ ranked[i] = gated[ranked[i].id]
            /\ \A i, j \in 1..Len(ranked) : i < j => ranked[i].score >= ranked[j].score)
    /\ (pc \in {"budget", "fallback", "ranked"} /\ ceFailure \in {"none", "timeout"}
             /\ calls.predict = 1 =>
            Len(scores) = Len(pairs))

\* the scores came back in exactly the budget: the second candidate has the
\* higher score and is returned first
C21_Witness ==
    /\ pc = "ranked"
    /\ path = "primary"
    /\ elapsed_ms = CE_TIMEOUT_MS
    /\ scores = <<0, 1>>
    /\ ranked[1].id = 2
    /\ ranked[1].score = 1
    /\ ranked[2].id = 1
    /\ ranked[2].score = 0

----------------------------------------------------------------------------
(* retrieve_and_answer(q), called once per question of the "Ask:" loop *)

\* texts of the chunks in the store
StoreTexts == { <<"a">>, <<"b">>, <<"A", " ", "b">> }

\* the documents vector_candidate_search gets from collection.find: the call
\* passes no include_similarity, so no document carries "$similarity"
StoreDocs == { Doc(0, TRUE, t, FALSE, 0) : t \in StoreTexts }

\* values of FINAL_K: the default 5 and smaller settings, one of them negative
FinalKValues == {-1, 0, 1, 2, 5}

\* how query_astra_llm.py is started: by run_all.py with the run as argument and
\* SITE_NAME exported, by hand with nothing set, or with RUN_ID and SITE_NAME in
\* the environment (.env) and no argument
Launches == {
    [argv |-> "r1", env |-> [RUN_ID |-> "None", SITE_NAME |-> "s1"]],
    [argv |-> "None", env |-> NoEnv],
    [argv |-> "None", env |-> [RUN_ID |-> "r2", SITE_NAME |-> "s1"]] }

\* what watsonx_chat_call returns as content
Contents == {"", "text"}

\* SliceTo taking one element more: ranked[:FINAL_K + 1]
SliceToOneMore(s, k) ==
    IF k + 1 >= 0 THEN Prefix(s, k + 1)
    ELSE Prefix(s, IF Len(s) + k + 1 > 0 THEN Len(s) + k + 1 ELSE 0)

\* Python s[:k] for any integer k
SliceTo(s, k) ==
    IF k >= 0 THEN Prefix(s, k)
    ELSE Prefix(s, IF Len(s) + k > 0 THEN Len(s) + k ELSE 0)

Init ==
    /\ pc = "start"
    /\ question \in Questions
    /\ terms = <<>>
    /\ cands = <<>>
    /\ gated = <<>>
    /\ ranked = <<>>
    /\ pairs = <<>>
    /\ CE = "None"
    /\ scores = <<>>
    /\ elapsed_ms = 0
    /\ ceFailure = "none"
    /\ path = "none"
    /\ calls = NoCalls
    /\ FINAL_K \in FinalKValues
    /\ top_docs = <<>>
    /\ result = NoResult
    /\ store = NoStore
    /\ prev = NoPrev
    /\ \E l \in Launches : RUN_ID = l.argv /\ env = l.env
    /\ find_filter = NoFilter
    /\ threads = NoThreads
    /\ ce_built = 0
    /\ watsonx = FullConfig
    /\ PipelineIdle
    /\ CrawlIdle

\* terms = extract_query_terms(q)
ExtractTerms ==
    /\ pc = "start"
    /\ terms' = extract_query_terms(question)
    /\ pc' = "search"
    /\ UNCHANGED <<question, cands, gated, ranked, pairs, CE, scores, elapsed_ms,
                   ceFailure, path, calls, FINAL_K, top_docs, result>>
    /\ UNCHANGED <<store, prev, find_filter, processVars>>

\* cands = vector_candidate_search(q, top_k=CANDIDATE_K): the site and the run are
\* read from os.environ, the query is embedded, and collection.find returns at
\* most top_k documents under the filter; when the embedder or the store raises,
\* retrieve_and_answer raises with it
vector_candidate_search ==
    /\ pc = "search"
    /\ calls' = [calls EXCEPT !.search = @ + 1]
    /\ \/ /\ find_filter' = FindFilter(env)
          /\ \E docs \in IF store.read THEN {store.docs}
                          ELSE CandSeqs(StoreDocs, MaxStoreDocs) :
                /\ store' = [read |-> TRUE, docs |-> docs]
                /\ cands' = Prefix(docs, CANDIDATE_K)
          /\ pc' = "fetched"
          /\ UNCHANGED result
       \/ /\ find_filter' \in {find_filter, FindFilter(env)}
          /\ pc' = "raised"
          /\ result' = [kind |-> "error", answer |-> "", sources |-> <<>>]
          /\ UNCHANGED <<cands, store>>
    /\ UNCHANGED <<question, terms, gated, ranked, pairs, CE, scores, elapsed_ms,
                   ceFailure, path, FINAL_K, top_docs>>
    /\ UNCHANGED <<prev, processVars>>

\* GateOrExit without the "if not cands" return
GateNoEarlyExit ==
    /\ pc = "fetched"
    /\ gated' = keyword_gate(cands, terms)
    /\ calls' = [calls EXCEPT !.gate = @ + 1]
    /\ pc' = "rerank"
    /\ UNCHANGED <<question, terms, cands, ranked, pairs, CE, scores, elapsed_ms,
                   ceFailure, path, FINAL_K, top_docs, result>>
    /\ UNCHANGED <<store, prev, find_filter, processVars>>

\* lines 213-216: the early return on no candidates, else the keyword gate
GateOrExit ==
    /\ pc = "fetched"
    /\ IF cands = <<>>
       THEN /\ result' = [kind |-> "ok", answer |-> "No results in Astra DB.",
                          sources |-> <<>>]
            /\ pc' = "done"
            /\ UNCHANGED <<gated, calls>>
       ELSE /\ gated' = keyword_gate(cands, terms)
            /\ calls' = [calls EXCEPT !.gate = @ + 1]
            /\ pc' = "rerank"
            /\ UNCHANGED result
    /\ UNCHANGED <<question, terms, cands, ranked, pairs, CE, scores, elapsed_ms,
                   ceFailure, path, FINAL_K, top_docs>>
    /\ UNCHANGED <<store, prev, find_filter, processVars>>

\* lines 219-222: top_docs = ranked[:FINAL_K], ans = answer_with_llm(q, top_docs);
\* watsonx_chat_call raises at once when a setting is missing (lines 63-65, 51-52),
\* else it returns the content or raises
Answer ==
    /\ pc = "ranked"
    /\ top_docs' = SliceTo(ranked, FINAL_K)
    /\ calls' = [calls EXCEPT !.answer = @ + 1]
    /\ IF MissingConfig(watsonx) # "none"
       THEN /\ result' = [kind |-> "error", answer |-> MissingConfig(watsonx),
                          sources |-> <<>>]
            /\ pc' = "raised"
       ELSE \/ \E content \in Contents :
                 /\ result' = [kind |-> "ok",
                               answer |-> IF content = "" THEN "(no content)" ELSE content,
                               sources |-> top_docs']
                 /\ pc' = "done"
            \/ /\ result' = [kind |-> "error", answer |-> "", sources |-> <<>>]
               /\ pc' = "raised"
    /\ UNCHANGED <<question, terms, cands, gated, ranked, pairs, CE, scores, elapsed_ms,
                   ceFailure, path, FINAL_K>>
    /\ UNCHANGED <<store, prev, find_filter, processVars>>

\* the "Ask:" loop reads the next question, for which the store holds other
\* nearest documents; _CE, FINAL_K and the environment stay as they are
Ask ==
    /\ pc \in {"done", "raised"}
    /\ \E q \in Questions : question' = q
    /\ pc' = "start"
    /\ terms' = <<>>
    /\ cands' = <<>>
    /\ gated' = <<>>
    /\ ranked' = <<>>
    /\ pairs' = <<>>
    /\ scores' = <<>>
    /\ elapsed_ms' = 0
    /\ ceFailure' = "none"
    /\ path' = "none"
    /\ calls' = NoCalls
    /\ top_docs' = <<>>
    /\ result' = NoResult
    /\ store' = NoStore
    /\ find_filter' = NoFilter
    /\ UNCHANGED <<CE, FINAL_K, prev, processVars>>

Next ==
    \/ ExtractTerms
    \/ vector_candidate_search
    \/ GateOrExit
    \/ RerankEntry
    \/ get_ce
    \/ predict
    \/ BudgetAndSort
    \/ Fallback
    \/ Answer
    \/ Ask

Spec == Init /\ [][Next]_vars

----------------------------------------------------------------------------
(* extract_query_terms applied to drawn questions *)

\* pieces of questions, joined by blanks into the questions of the term extraction
TermSegments == {
    \* six words: aaa bbb ccc ddd eee fff
    <<"a", "a", "a", " ", "b", "b", "b", " ", "c", "c", "c", " ", "d", "d", "d", " ",
          "e", "e", "e", " ", "f", "f", "f">>,
    \* five more words: ggg hhh iii jjj kkk
    <<"g", "g", "g", " ", "h", "h", "h", " ", "i", "i", "i", " ", "j", "j", "j", " ",
          "k", "k", "k">>,
    \* a word in upper case, a stop word, a phrase, a short word, the first word again: Aaa the "A b" to aaa
    <<"A", "a", "a", " ", "t", "h", "e", " ", "\"", "A", " ", "b", "\"", " ", "t", "o",
          " ", "a", "a", "a">>,
    \* a one-letter phrase, the phrase "A b" with blanks around it, a quoted stop word: "x" " A b " "the"
    <<"\"", "x", "\"", " ", "\"", " ", "A", " ", "b", " ", "\"", " ", "\"", "t", "h",
          "e", "\"">>,
    \* plus signs and punctuation: +++ ?!
    <<"+", "+", "+", " ", "?", "!">>,
    \* a quoted question mark and a word ending in plus signs: "?" c++
    <<"\"", "?", "\"", " ", "c", "+", "+">>,
    \* punctuation and whitespace without plus sign or quote: \t?! ,\t
    <<"\t", "?", "!", " ", ",", "\t">>,
    \* a quote without its pair: "
    <<"\"">> }

\* "machine learning" models for finance
ExampleQuestion ==
    <<"\"", "m", "a", "c", "h", "i", "n", "e", " ", "l", "e", "a", "r", "n", "i", "n",
          "g", "\"", " ", "m", "o", "d", "e", "l", "s", " ", "f", "o", "r", " ", "f",
          "i", "n", "a", "n", "c", "e">>

RECURSIVE JoinSegments(_)
\* " ".join(segs)
JoinSegments(segs) ==
    IF segs = <<>> THEN <<>>
    ELSE IF Len(segs) = 1 THEN segs[1]
    ELSE segs[1] \o <<" ">> \o JoinSegments(Tail(segs))

\* the questions: up to MaxSegments pieces in any order, and the example
TermQuestions ==
    { JoinSegments(f) : f \in UNION { [1..k -> TermSegments] : k \in 0..MaxSegments } }
        \cup {ExampleQuestion}

InitTerms ==
    /\ pc = "start"
    /\ question \in TermQuestions
    /\ terms = <<>>
    /\ cands = <<>>
    /\ gated = <<>>
    /\ ranked = <<>>
    /\ pairs = <<>>
    /\ CE = "None"
    /\ scores = <<>>
    /\ elapsed_ms = 0
    /\ ceFailure = "none"
    /\ path = "none"
    /\ calls = NoCalls
    /\ FINAL_K = 5
    /\ top_docs = <<>>
    /\ result = NoResult
    /\ store = NoStore
    /\ prev = NoPrev
    /\ RUN_ID = "None"
    /\ env = NoEnv
    /\ find_filter = NoFilter
    /\ threads = NoThreads
    /\ ce_built = 0
    /\ watsonx = FullConfig
    /\ PipelineIdle
    /\ CrawlIdle

NextTerms == ExtractTerms

SpecTerms == InitTerms /\ [][NextTerms]_vars

----------------------------------------------------------------------------
(* Properties of extract_query_terms (checked under SpecTerms) *)

\* lines 103 and 107: the quoted phrases of q0 in order, trimmed and lower-cased,
\* the blank ones dropped
QuotedPhrases(q0) ==
    LET kept == SelectSeq(ScanQuotes(Strip(q0), 1).phrases, LAMBDA ph : Strip(ph) # <<>>)
    IN  [k \in 1..Len(kept) |-> Lower(Strip(kept[k]))]

\* lines 104-105: the pieces of q0 outside the quoted phrases, lower-cased, in order
RawWords(q0) == SplitTokens(Lower(ScanQuotes(Strip(q0), 1).rest))

\* whether w is a word the extraction keeps: three characters or more, no stop word
IsKeptWord(w) == Len(w) >= MIN_WORD_LEN /\ w \notin STOPWORDS

\* the elements of the sequence s
Range(s) == { s[i] : i \in 1..Len(s) }

\* the index of the first occurrence of x in s
FirstIndex(s, x) == CHOOSE i \in 1..Len(s) : s[i] = x /\ \A k \in 1..(i - 1) : s[k] # x

\* C17: extract_query_terms returns at most 10 terms and no term twice
C17_AtMostTenDistinctTerms ==
    pc = "search" =>
        /\ Len(terms) <= 10
        /\ \A i, j \in 1..Len(terms) : i # j => terms[i] # terms[j]

\* more than ten distinct terms in the question, one of them repeated, ten returned
C17_Witness ==
    /\ pc = "search"
    /\ Len(terms) = 10
    /\ LET all == QuotedPhrases(question) \o SelectSeq(RawWords(question), IsKeptWord)
       IN  /\ Cardinality(Range(all)) > 10
           /\ Len(all) > Cardinality(Range(all))

\* C18: the quoted phrases, lower-cased and trimmed, come before the single
\* words; phrases are in their order of occurrence and words in theirs; a
\* repeated term is kept at its first occurrence only; a term that is not a
\* phrase is a word outside quotes of three characters or more that is no stop
\* word; the example question gives [machine learning, models, finance]
C18_PhrasesThenWordsInOrder ==
    pc = "search" =>
        LET ph  == QuotedPhrases(question)
            raw == RawWords(question)
            all == ph \o SelectSeq(raw, IsKeptWord)
        IN  /\ \A i \in 1..Len(terms) : terms[i] \in Range(all)
            /\ \A i, j \in 1..Len(terms) :
                  i < j => FirstIndex(all, terms[i]) < FirstIndex(all, terms[j])
            /\ \A i, j \in 1..Len(terms) :
                  (terms[i] \notin Range(ph) /\ terms[j] \in Range(ph)) => j < i
            /\ \A i \in 1..Len(terms) :
                  terms[i] \notin Range(ph) =>
                      (terms[i] \in Range(raw) /\ IsKeptWord(terms[i]))
            /\ \A x \in Range(all) :
                  x \notin Range(terms) =>
                      (Len(terms) = 10 /\ FirstIndex(all, x) > FirstIndex(all, terms[10]))
            /\ (question = ExampleQuestion =>
                   terms = << <<"m", "a", "c", "h", "i", "n", "e", " ",
                                "l", "e", "a", "r", "n", "i", "n", "g">>,
                              <<"m", "o", "d", "e", "l", "s">>,
                              <<"f", "i", "n", "a", "n", "c", "e">> >>)

\* the question starts with a word and holds a stop word, a short word and a
\* repeated word; the phrase is returned first, then the word once
C18_Witness ==
    /\ pc = "search"
    /\ question = <<"A", "a", "a", " ", "t", "h", "e", " ", "\"", "A", " ", "b", "\"", " ",
                    "t", "o", " ", "a", "a", "a">>
    /\ terms = << <<"a", " ", "b">>, <<"a", "a", "a">> >>

\* C19: extract_query_terms returns the empty sequence for the empty question
\* and for every question without a letter, a digit or an underscore; stated
\* for the questions that hold no double quote either
C19_NoTermsFromPunctuation ==
    (/\ pc = "search"
     /\ \A i \in 1..Len(question) : ~IsWordChar(question[i]) /\ question[i] # Quote) =>
        terms = <<>>

----------------------------------------------------------------------------
(* Properties of retrieve_and_answer (checked under Spec) *)

\* C2: when the vector search returns no candidate, retrieve_and_answer returns
\* exactly the "No results in Astra DB." result with no sources, and the gate,
\* the re-ranker, the scoring model and the answer provider are never called
C2_EarlyExitOnNoCandidates ==
    (pc \in {"fetched", "rerank", "get_ce", "predict", "budget", "fallback", "ranked",
             "done"} /\ cands = <<>>) =>
        /\ pc \in {"fetched", "done"}
        /\ calls.gate = 0
        /\ calls.rerank = 0
        /\ calls.get_ce = 0
        /\ calls.predict = 0
        /\ calls.answer = 0
        /\ (pc = "done" =>
               result = [kind |-> "ok", answer |-> "No results in Astra DB.",
                         sources |-> <<>>])

C2_Witness ==
    /\ pc = "done"
    /\ calls.search = 1
    /\ cands = <<>>
    /\ terms # <<>>
    /\ result.answer = "No results in Astra DB."
    /\ result.sources = <<>>

\* C10: when retrieve_and_answer returns an answer and FINAL_K is not negative,
\* sources is the first min(FINAL_K, n) elements of the n ranked candidates, in
\* ranked order, so never more than FINAL_K of them
C10_SourcesAreTopFinalK ==
    (pc = "done" /\ cands # <<>> /\ FINAL_K >= 0) =>
        LET n == Len(ranked)
            m == IF FINAL_K < n THEN FINAL_K ELSE n
        IN  /\ result.kind = "ok"
            /\ Len(result.sources) = m
            /\ \A i \in 1..m : result.sources[i] = ranked[i]
            /\ Len(result.sources) <= FINAL_K
            /\ ranked \in {fallback_order(keyword_gate(cands, terms), terms),
                           primary_order(keyword_gate(cands, terms), scores)}

\* two ranked candidates, the second of the input ranked first, FINAL_K = 1
C10_Witness ==
    /\ pc = "done"
    /\ FINAL_K = 1
    /\ Len(ranked) = 2
    /\ ranked[1].id = 2
    /\ result.kind = "ok"
    /\ result.sources = <<ranked[1]>>

----------------------------------------------------------------------------
(* retrieve_and_answer called twice with the same question *)

\* the questions asked twice
TwiceQuestions == { <<"\"", "a", "\"">>, <<"A", " ", "b">> }

InitTwice ==
    /\ pc = "start"
    /\ question \in TwiceQuestions
    /\ terms = <<>>
    /\ cands = <<>>
    /\ gated = <<>>
    /\ ranked = <<>>
    /\ pairs = <<>>
    /\ CE = "None"
    /\ scores = <<>>
    /\ elapsed_ms = 0
    /\ ceFailure = "none"
    /\ path = "none"
    /\ calls = NoCalls
    /\ FINAL_K \in {1, 5}
    /\ top_docs = <<>>
    /\ result = NoResult
    /\ store = NoStore
    /\ prev = NoPrev
    /\ RUN_ID = "None"
    /\ env = NoEnv
    /\ find_filter = NoFilter
    /\ threads = NoThreads
    /\ ce_built = 0
    /\ watsonx = FullConfig
    /\ PipelineIdle
    /\ CrawlIdle

\* the first call has returned and the same question is asked again: the
\* collection, _CE and the environment are as the first call left them
AskAgain ==
    /\ pc = "done"
    /\ ~prev.valid
    /\ prev' = [valid |-> TRUE, scores |-> scores, ceFailure |-> ceFailure,
                elapsed_ms |-> elapsed_ms, result |-> result]
    /\ pc' = "start"
    /\ terms' = <<>>
    /\ cands' = <<>>
    /\ gated' = <<>>
    /\ ranked' = <<>>
    /\ pairs' = <<>>
    /\ scores' = <<>>
    /\ elapsed_ms' = 0
    /\ ceFailure' = "none"
    /\ path' = "none"
    /\ calls' = NoCalls
    /\ top_docs' = <<>>
    /\ result' = NoResult
    /\ find_filter' = NoFilter
    /\ UNCHANGED <<question, CE, FINAL_K, store, processVars>>

NextTwice ==
    \/ ExtractTerms
    \/ vector_candidate_search
    \/ GateOrExit
    \/ RerankEntry
    \/ get_ce
    \/ predict
    \/ BudgetAndSort
    \/ Fallback
    \/ Answer
    \/ AskAgain

SpecTwice == InitTwice /\ [][NextTwice]_vars

\* the context answer_with_llm builds from the documents: their texts, in order
Context(docs) == [i \in 1..Len(docs) |-> TextOrEmpty(docs[i])]

\* the providers behaved in this call as in the previous one: the store is the
\* same by construction, the scoring provider raised in both calls or returned
\* the same scores in both, and the answer provider gave the same content for
\* the same context
SameProviderOutputs ==
    /\ (prev.ceFailure \in {"load", "predict"}) = (ceFailure \in {"load", "predict"})
    /\ prev.scores = scores
    /\ (Context(prev.result.sources) = Context(result.sources) =>
            prev.result.answer = result.answer)

\* C13 as stated: a second call with the same question, site and run against
\* providers that behave the same returns the result of the first call
C13_SameCallSameResult ==
    (pc = "done" /\ prev.valid /\ SameProviderOutputs) => result = prev.result

\* C13 amended: the second call returns the result of the first when in
\* addition the scoring took more than the budget in both calls or in neither
C13_SameCallSameBudgetSideSameResult ==
    (/\ pc = "done"
     /\ prev.valid
     /\ SameProviderOutputs
     /\ OverBudget(prev.elapsed_ms) = OverBudget(elapsed_ms)) => result = prev.result

\* both calls scored within the budget, the first one having loaded the model,
\* and both return the second document of the store ahead of the first
C13_Witness ==
    /\ pc = "done"
    /\ prev.valid
    /\ prev.ceFailure = "none"
    /\ ceFailure = "none"
    /\ Len(scores) = 2
    /\ prev.scores = scores
    /\ calls.ce_load = 0
    /\ Len(result.sources) = 2
    /\ result.sources[1].id = 2
    /\ result.sources[1].hasScore
    /\ result = prev.result

\* C12: no failure of the re-ranking step reaches the caller: after the model
\* failed to load, the scoring raised or the budget was exceeded,
\* rerank_candidates returns every candidate by the fallback path, the answer
\* stage is called, and retrieve_and_answer raises only from the vector search
\* or from the answer stage
C12_RerankFailureNotVisible ==
    /\ (pc = "raised" => (calls.rerank = 0 \/ calls.answer = 1))
    /\ ((pc = "ranked" /\ ceFailure # "none") =>
            (path = "fallback" /\ Len(ranked) = Len(gated)))
    /\ ((pc \in {"done", "raised"} /\ ceFailure # "none") => calls.answer = 1)
    /\ (pc = "fallback" => ceFailure \in {"load", "predict", "timeout"})

\* the model failed to load and the question was answered from both candidates
C12_Witness ==
    /\ pc = "done"
    /\ ceFailure = "load"
    /\ calls.ce_load = 1
    /\ calls.answer = 1
    /\ result.kind = "ok"
    /\ Len(result.sources) = 2

----------------------------------------------------------------------------
(* retrieve_and_answer when the answer provider is not fully configured *)

\* which of IBM_API_KEY, WATSONX_URL, WATSONX_PROJECT_ID the process finds set at
\* import (lines 15-18): all of them, or one of them missing
Configs == {
    FullConfig,
    [FullConfig EXCEPT !.IBM_API_KEY = FALSE],
    [FullConfig EXCEPT !.WATSONX_URL = FALSE],
    [FullConfig EXCEPT !.WATSONX_PROJECT_ID = FALSE] }

\* the state of Init with the default FINAL_K and any of the configurations
InitCreds ==
    /\ pc = "start"
    /\ question \in Questions
    /\ terms = <<>>
    /\ cands = <<>>
    /\ gated = <<>>
    /\ ranked = <<>>
    /\ pairs = <<>>
    /\ CE = "None"
    /\ scores = <<>>
    /\ elapsed_ms = 0
    /\ ceFailure = "none"
    /\ path = "none"
    /\ calls = NoCalls
    /\ FINAL_K = 5
    /\ top_docs = <<>>
    /\ result = NoResult
    /\ store = NoStore
    /\ prev = NoPrev
    /\ \E l \in Launches : RUN_ID = l.argv /\ env = l.env
    /\ find_filter = NoFilter
    /\ threads = NoThreads
    /\ ce_built = 0
    /\ watsonx \in Configs
    /\ PipelineIdle
    /\ CrawlIdle

SpecCreds == InitCreds /\ [][Next]_vars

\* C23: with IBM_API_KEY, WATSONX_URL or WATSONX_PROJECT_ID missing, a call of
\* retrieve_and_answer performs no vector search, no gating and no re-ranking, and
\* when it has ended it has raised the configuration error
C23_MissingConfigFailsBeforeSearch ==
    MissingConfig(watsonx) # "none" =>
        /\ calls.search = 0
        /\ calls.gate = 0
        /\ calls.rerank = 0
        /\ (pc \in {"done", "raised"} =>
               result.kind = "error" /\ result.answer = MissingConfig(watsonx))

----------------------------------------------------------------------------
(* server.py: POST /answer.  The endpoint is a plain "def", which the server  *)
(* runs on worker threads, so two requests can be inside it at once.  Each    *)
(* thread t keeps in threads[t]                                               *)
(*   pc      its position in answer() and in the functions it calls,          *)
(*   run_id  req.run_id, "None" when the request has none,                    *)
(*   overlapped  whether another request was being served during this one,   *)
(*   filter  the filter of its collection.find,                               *)
(*   found   how many documents that find returned,                           *)
(*   ce      the model get_ce returned to it,                                 *)
(*   failed  the call that raised inside the try, "none" if none did,         *)
(*   status, body   the HTTP status and the keys of the JSON body it answers.  *)
(* os.environ and _CE belong to the process and are shared by the threads;    *)
(* the terms, the gate and the ordering are local to a call and are the ones  *)
(* of Spec.                                                                   *)

\* run_id values a request can carry
RequestRunIds == {"None", "r1", "r2"}

\* SITE_NAME in the environment the server is started with
ServerSites == {"None", "s1"}

\* the CrossEncoder objects in the order of their construction
ModelHandles == <<"model", "model_2">>

InitServer ==
    /\ pc = "serving"
    /\ question = <<>>
    /\ terms = <<>>
    /\ cands = <<>>
    /\ gated = <<>>
    /\ ranked = <<>>
    /\ pairs = <<>>
    /\ CE = "None"
    /\ scores = <<>>
    /\ elapsed_ms = 0
    /\ ceFailure = "none"
    /\ path = "none"
    /\ calls = NoCalls
    /\ FINAL_K = 5
    /\ top_docs = <<>>
    /\ result = NoResult
    /\ store = NoStore
    /\ prev = NoPrev
    /\ RUN_ID = "None"
    /\ \E s \in ServerSites : env = [RUN_ID |-> "None", SITE_NAME |-> s]
    /\ find_filter = NoFilter
    /\ threads = NoThreads
    /\ ce_built = 0
    /\ watsonx = FullConfig
    /\ PipelineIdle
    /\ CrawlIdle

\* the variables of one call of retrieve_and_answer, which the server keeps per thread
callVars == <<pc, question, terms, cands, gated, ranked, pairs, scores, elapsed_ms, ceFailure,
              path, calls, FINAL_K, top_docs, result, store, prev, RUN_ID, find_filter,
              watsonx, pipelineVars, crawlVars>>

\* whether one of the threads ts is inside the try of answer()
Busy(ts) == \E u \in ts : threads[u].pc \notin {"idle", "responded"}

\* lines 415-418: a request arrives; with API_KEY set and another key sent the
\* endpoint raises HTTPException(401) before the try
Receive(t) ==
    /\ threads[t].pc \in {"idle", "responded"}
    /\ \E rid \in RequestRunIds, authorized \in BOOLEAN :
          threads' = [u \in Threads |->
              IF u = t
              THEN IF authorized
                   THEN [IdleThread EXCEPT !.pc = "set_env", !.run_id = rid,
                                           !.overlapped = Busy(Threads \ {t})]
                   ELSE [IdleThread EXCEPT !.pc = "responded", !.run_id = rid,
                                           !.status = 401, !.body = "detail"]
              ELSE IF authorized /\ Busy({u})
                   THEN [threads[u] EXCEPT !.overlapped = TRUE]
                   ELSE threads[u]]
    /\ UNCHANGED <<callVars, CE, env, ce_built>>

\* lines 423-438: os.environ["RUN_ID"] = req.run_id when the request has one,
\* SITE_NAME gets "hprc.in" when unset; then the import, which can raise
SetEnv(t) ==
    /\ threads[t].pc = "set_env"
    /\ env' = IF threads[t].run_id # "None"
              THEN [RUN_ID |-> threads[t].run_id,
                    SITE_NAME |-> IF env.SITE_NAME = "None" THEN "hprc.in"
                                  ELSE env.SITE_NAME]
              ELSE env
    /\ \/ threads' = [threads EXCEPT ![t].pc = "search"]
       \/ threads' = [threads EXCEPT ![t].pc = "respond", ![t].failed = "import"]
    /\ UNCHANGED <<callVars, CE, ce_built>>

\* retrieve_and_answer line 211 -> vector_candidate_search lines 116-132: the
\* filter is built from os.environ as it is now; lines 213-214: no candidates,
\* the fixed result
Search(t) ==
    /\ threads[t].pc = "search"
    /\ \/ \E n \in {0, 1} :
            threads' = [threads EXCEPT ![t].filter = FindFilter(env),
                                       ![t].found = n,
                                       ![t].pc = IF n = 0 THEN "respond" ELSE "get_ce"]
       \/ threads' = [threads EXCEPT ![t].pc = "respond", ![t].failed = "search"]
    /\ UNCHANGED <<callVars, CE, env, ce_built>>

\* get_ce line 44: if _CE is None
CeCheck(t) ==
    /\ threads[t].pc = "get_ce"
    /\ threads' = [threads EXCEPT ![t].pc = IF CE = "None" THEN "ce_construct"
                                            ELSE "ce_return"]
    /\ UNCHANGED <<callVars, CE, env, ce_built>>

\* get_ce lines 45-46: _CE = CrossEncoder(...); when the constructor raises,
\* rerank_candidates catches it and orders by the fallback
CeConstruct(t) ==
    /\ threads[t].pc = "ce_construct"
    /\ \/ /\ ce_built < Len(ModelHandles)
          /\ ce_built' = ce_built + 1
          /\ CE' = ModelHandles[ce_built + 1]
          /\ threads' = [threads EXCEPT ![t].pc = "ce_return"]
       \/ /\ threads' = [threads EXCEPT ![t].pc = "answer"]
          /\ UNCHANGED <<CE, ce_built>>
    /\ UNCHANGED <<callVars, env>>

\* get_ce line 47: return _CE; then predict and the ordering, local to the call
CeReturn(t) ==
    /\ threads[t].pc = "ce_return"
    /\ threads' = [threads EXCEPT ![t].ce = CE, ![t].pc = "answer"]
    /\ UNCHANGED <<callVars, CE, env, ce_built>>

\* retrieve_and_answer lines 219-220: answer_with_llm -> watsonx_chat_call, which
\* returns the content or raises
AnswerLLM(t) ==
    /\ threads[t].pc = "answer"
    /\ \/ threads' = [threads EXCEPT ![t].pc = "respond"]
       \/ threads' = [threads EXCEPT ![t].pc = "respond", ![t].failed = "answer"]
    /\ UNCHANGED <<callVars, CE, env, ce_built>>

\* lines 443-455: the result formatted as {"answer", "sources"}, and the same two
\* keys from "except Exception" with the error text as the answer
Respond(t) ==
    /\ threads[t].pc = "respond"
    /\ threads' = [threads EXCEPT ![t].pc = "responded",
                                  ![t].status = 200,
                                  ![t].body = "answer, sources"]
    /\ UNCHANGED <<callVars, CE, env, ce_built>>

NextServer ==
    \E t \in Threads :
        \/ Receive(t)
        \/ SetEnv(t)
        \/ Search(t)
        \/ CeCheck(t)
        \/ CeConstruct(t)
        \/ CeReturn(t)
        \/ AnswerLLM(t)
        \/ Respond(t)

SpecServer == InitServer /\ [][NextServer]_vars

----------------------------------------------------------------------------
(* Properties of POST /answer (checked under SpecServer) *)

C14_ConcurrentRequestsOwnRun ==
    \A t \in Threads :
        (threads[t].filter.issued /\ threads[t].run_id # "None") =>
            /\ threads[t].filter.has_run_id
            /\ threads[t].filter.run_id = threads[t].run_id

\* C15: the re-ranking model is constructed at most once in the process, and
\* every caller of get_ce receives the same model
C15_ModelBuiltOnce ==
    /\ ce_built <= 1
    /\ \A t, u \in Threads :
          (threads[t].ce # "None" /\ threads[u].ce # "None") => threads[t].ce = threads[u].ce

\* C16: the query of a request carries the site filter, and the run_id filter
\* exactly when the request supplied a run_id, with that value; stated for the
\* requests served with no other request in service at any time during them
C16_FilterMatchesRequest ==
    \A t \in Threads :
        (threads[t].filter.issued /\ ~threads[t].overlapped) =>
            /\ threads[t].filter.site_name # ""
            /\ threads[t].filter.has_run_id = (threads[t].run_id # "None")
            /\ (threads[t].run_id # "None" =>
                   threads[t].filter.run_id = threads[t].run_id)

----------------------------------------------------------------------------
(* server.py: pipeline management.  POST /pipeline/start adds a background  *)
(* task, run_pipeline_background, which registers the run in               *)
(* pipeline_status, sets up the database, launches run_all.py as a child   *)
(* process and copies its output to the log of the run; DELETE             *)
(* /pipeline/{run_id} and POST /answer are plain "def" endpoints served on *)
(* worker threads while the task waits for the child.  A task i keeps in   *)
(* tasks[i]                                                                *)
(*   pc          "none", "queued", "streaming", "done", or "unhandled"     *)
(*               when the coroutine ended with an exception,               *)
(*   run_id      the run_id start_pipeline generated and returned,         *)
(*   site        the netloc of req.start_url,                              *)
(*   child       the state of the run_all.py process,                      *)
(*   RUN_ID      the RUN_ID run_all.py computed (-1 before it did),        *)
(*   returncode  the exit code of run_all.py (-1 before it exited).        *)
(* An entry of pipeline_status holds the status, the end_time (-1 for      *)
(* None) and, for the properties, the tasks that wrote to it.  From        *)
(* "queued" to the launch of the child (lines 166-241) the coroutine does  *)
(* not await, and it is one step.                                          *)

\* length of a second of the wall clock, in ticks
TicksPerSecond == 2

\* last tick of the wall clock
MaxClock == 2

\* the sites of the start_url values a pipeline request can carry
PipelineSites == {"sA", "sB"}

\* time.strftime("%Y%m%d_%H%M%S"): the time to the second
strftime(t) == t \div TicksPerSecond

\* ensure_db(start_url): the data endpoint of the database named after the site
EndpointOf == [sA |-> "endpoint A", sB |-> "endpoint B"]

\* d[k] = v
Put(d, k, v) == [x \in DOMAIN d \cup {k} |-> IF x = k THEN v ELSE d[x]]

\* del d[k]
Del(d, k) == [x \in DOMAIN d \ {k} |-> d[x]]

\* what save_pipeline_history() writes for the dict ps: status and end_time of
\* every entry (the write itself is taken to succeed)
save_pipeline_history(ps) ==
    [x \in DOMAIN ps |-> [status |-> ps[x].status, end_time |-> ps[x].end_time]]

\* the variables of the retrieval, os.environ apart
retrievalVars == <<pc, question, terms, cands, gated, ranked, pairs, CE, scores, elapsed_ms,
                   ceFailure, path, calls, FINAL_K, top_docs, result, store, prev, RUN_ID,
                   find_filter, threads, ce_built, watsonx>>

\* everything the pipeline management leaves as it is
answerVars == <<retrievalVars, crawlVars>>

InitPipeline ==
    /\ pc = "serving"
    /\ question = <<>>
    /\ terms = <<>>
    /\ cands = <<>>
    /\ gated = <<>>
    /\ ranked = <<>>
    /\ pairs = <<>>
    /\ CE = "None"
    /\ scores = <<>>
    /\ elapsed_ms = 0
    /\ ceFailure = "none"
    /\ path = "none"
    /\ calls = NoCalls
    /\ FINAL_K = 5
    /\ top_docs = <<>>
    /\ result = NoResult
    /\ store = NoStore
    /\ prev = NoPrev
    /\ RUN_ID = "None"
    /\ \E s \in ServerSites : env = [RUN_ID |-> "None", SITE_NAME |-> s]
    /\ find_filter = NoFilter
    /\ threads = NoThreads
    /\ ce_built = 0
    /\ watsonx = FullConfig
    /\ PipelineIdle
    /\ CrawlIdle

\* time passes
Tick ==
    /\ clock < MaxClock
    /\ clock' = clock + 1
    /\ UNCHANGED <<pipeline_status, history, tasks, data_dirs, module,
                   ASTRA_DB_API_ENDPOINT, answer_req, env, answerVars>>

\* lines 337-354: run_id = time.strftime(...), the task is added and the run_id
\* returned (a request with a wrong API key is refused and adds nothing)
start_pipeline(i) ==
    /\ tasks[i].pc = "none"
    /\ \A j \in TaskIds : j < i => tasks[j].pc # "none"
    /\ \E site \in PipelineSites :
          tasks' = [tasks EXCEPT ![i] = [NoTask EXCEPT !.pc = "queued",
                                                       !.run_id = strftime(clock),
                                                       !.site = site]]
    /\ UNCHANGED <<clock, pipeline_status, history, data_dirs, module,
                   ASTRA_DB_API_ENDPOINT, answer_req, env, answerVars>>

\* lines 166-241: pipeline_status[run_id] = PipelineStatus(status="running") and
\* save (167-174), os.environ["SITE_NAME"] = site_name (180), ensure_db (205),
\* which sets the endpoint in os.environ (astra_db_manager.py 149-150), the
\* handles of server.py reset (218-222), run_all.py launched (232-241).  When
\* ensure_db raises, lines 278-282 record the failure and save
run_pipeline_background(i) ==
    /\ tasks[i].pc = "queued"
    /\ LET rid == tasks[i].run_id
           before == IF rid \in DOMAIN pipeline_status
                     THEN pipeline_status[rid].writers ELSE {}
           started == Put(pipeline_status, rid,
                          [status |-> "running", end_time |-> -1,
                           writers |-> before \cup {i}])
       IN /\ env' = [env EXCEPT !.SITE_NAME = tasks[i].site]
          /\ \/ /\ pipeline_status' = [started EXCEPT ![rid].status = "failed",
                                                        ![rid].end_time = strftime(clock)]
                /\ tasks' = [tasks EXCEPT ![i].pc = "done"]
                /\ UNCHANGED ASTRA_DB_API_ENDPOINT
             \/ /\ pipeline_status' = started
                /\ ASTRA_DB_API_ENDPOINT' = EndpointOf[tasks[i].site]
                /\ tasks' = [tasks EXCEPT ![i].pc = "streaming", ![i].child = "launched"]
          /\ history' = save_pipeline_history(pipeline_status')
    /\ UNCHANGED <<clock, data_dirs, module, answer_req, answerVars>>

\* run_all.py lines 11-36: ensure_db once more, then RUN_ID = time.strftime(...)
\* and data/<RUN_ID> is created; crawl.py and upload_parsed_to_astra.py get this
\* RUN_ID as argument (lines 60, 74).  A failure before line 34 ends the child
RunAllStart(i) ==
    /\ tasks[i].pc = "streaming"
    /\ tasks[i].child = "launched"
    /\ \/ /\ tasks' = [tasks EXCEPT ![i].child = "running", ![i].RUN_ID = strftime(clock)]
          /\ data_dirs' = data_dirs \cup {strftime(clock)}
       \/ /\ tasks' = [tasks EXCEPT ![i].child = "exited", ![i].returncode = 1]
          /\ UNCHANGED data_dirs
    /\ UNCHANGED <<clock, pipeline_status, history, module, ASTRA_DB_API_ENDPOINT,
                   answer_req, env, answerVars>>

\* run_all.py lines 50-79: the steps run; the first that fails ends the child with
\* its exit code (line 57), else the child ends with 0
RunAllEnd(i) ==
    /\ tasks[i].pc = "streaming"
    /\ tasks[i].child = "running"
    /\ \E rc \in {0, 1} :
          tasks' = [tasks EXCEPT ![i].child = "exited", ![i].returncode = rc]
    /\ UNCHANGED <<clock, pipeline_status, history, data_dirs, module,
                   ASTRA_DB_API_ENDPOINT, answer_req, env, answerVars>>

\* lines 245-254: a line of the child is appended to pipeline_status[run_id].logs;
\* without the entry this raises KeyError, and the handler (lines 278-282), which
\* indexes pipeline_status[run_id] again, raises it out of the coroutine
Stream(i) ==
    /\ tasks[i].pc = "streaming"
    /\ LET rid == tasks[i].run_id
       IN IF rid \in DOMAIN pipeline_status
          THEN /\ pipeline_status' =
                      [pipeline_status EXCEPT ![rid].writers = @ \cup {i}]
               /\ UNCHANGED tasks
          ELSE /\ tasks' = [tasks EXCEPT ![i].pc = "unhandled"]
               /\ UNCHANGED pipeline_status
    /\ UNCHANGED <<clock, history, data_dirs, module, ASTRA_DB_API_ENDPOINT,
                   answer_req, env, answerVars>>

\* lines 257-276: the child has exited.  Non-zero: "failed" and end_time are set
\* and the coroutine returns (259-264); zero: "completed", end_time, and
\* save_pipeline_history() (266-276).  Without the entry, KeyError as in Stream
Exit(i) ==
    /\ tasks[i].pc = "streaming"
    /\ tasks[i].child = "exited"
    /\ LET rid == tasks[i].run_id
       IN IF rid \notin DOMAIN pipeline_status
          THEN /\ tasks' = [tasks EXCEPT ![i].pc = "unhandled"]
               /\ UNCHANGED <<pipeline_status, history>>
          ELSE /\ tasks' = [tasks EXCEPT ![i].pc = "done"]
               /\ pipeline_status' =
                      [pipeline_status EXCEPT
                          ![rid].status = IF tasks[i].returncode # 0 THEN "failed"
                                          ELSE "completed",
                          ![rid].end_time = strftime(clock),
                          ![rid].writers = @ \cup {i}]
               /\ history' = IF tasks[i].returncode # 0 THEN history
                             ELSE save_pipeline_history(pipeline_status')
    /\ UNCHANGED <<clock, data_dirs, module, ASTRA_DB_API_ENDPOINT, answer_req, env,
                   answerVars>>

\* lines 395-412: the entry is deleted and the history saved, the directory
\* data/<run_id> removed
delete_pipeline(rid) ==
    /\ rid \in DOMAIN pipeline_status \cup data_dirs
    /\ IF rid \in DOMAIN pipeline_status
       THEN /\ pipeline_status' = Del(pipeline_status, rid)
            /\ history' = save_pipeline_history(pipeline_status')
       ELSE UNCHANGED <<pipeline_status, history>>
    /\ data_dirs' = data_dirs \ {rid}
    /\ UNCHANGED <<clock, tasks, module, ASTRA_DB_API_ENDPOINT, answer_req, env,
                   answerVars>>

\* answer() lines 415-438: with a run_id in the request, RUN_ID is set and
\* SITE_NAME defaults to "hprc.in"; then "from query_astra_llm import ...": the
\* first import runs the module, which reads SITE_NAME (line 21) and creates the
\* collection handle from the endpoint (lines 11, 34-36) and cannot do so without
\* an endpoint; a later import finds the module loaded
AnswerReceive ==
    /\ answer_req.pc \in {"idle", "answered"}
    /\ \E rid \in {"None", "r1"} :
          /\ env' = IF rid # "None"
                    THEN [RUN_ID |-> rid,
                          SITE_NAME |-> IF env.SITE_NAME = "None" THEN "hprc.in"
                                        ELSE env.SITE_NAME]
                    ELSE env
          /\ \/ /\ module.imported
                /\ answer_req' = [NoAnswerReq EXCEPT !.pc = "search"]
                /\ UNCHANGED module
             \/ /\ ~module.imported
                /\ ASTRA_DB_API_ENDPOINT # "None"
                /\ module' = [imported |-> TRUE,
                              SITE_NAME |-> FindFilter(env').site_name,
                              collection |-> ASTRA_DB_API_ENDPOINT]
                /\ answer_req' = [NoAnswerReq EXCEPT !.pc = "search"]
             \/ /\ ~module.imported
                /\ answer_req' = [NoAnswerReq EXCEPT !.pc = "answered"]
                /\ UNCHANGED module
    /\ UNCHANGED <<clock, pipeline_status, history, tasks, data_dirs,
                   ASTRA_DB_API_ENDPOINT, answerVars>>

\* vector_candidate_search lines 116-132: the site of the filter is read from
\* os.environ now, the find goes through the collection handle of the module; no
\* documents end the call (lines 213-214)
AnswerSearch ==
    /\ answer_req.pc = "search"
    /\ \E next \in {"synth", "answered"} :
          answer_req' = [answer_req EXCEPT !.pc = next,
                                           !.filter_site = FindFilter(env).site_name,
                                           !.endpoint = ASTRA_DB_API_ENDPOINT,
                                           !.searched = module.collection]
    /\ UNCHANGED <<clock, pipeline_status, history, tasks, data_dirs, module,
                   ASTRA_DB_API_ENDPOINT, env, answerVars>>

\* answer_with_llm lines 194-206: the system message names the module global
\* SITE_NAME
AnswerSynth ==
    /\ answer_req.pc = "synth"
    /\ answer_req' = [answer_req EXCEPT !.pc = "answered",
                                        !.system_site = module.SITE_NAME]
    /\ UNCHANGED <<clock, pipeline_status, history, tasks, data_dirs, module,
                   ASTRA_DB_API_ENDPOINT, env, answerVars>>

NextPipeline ==
    \/ Tick
    \/ \E i \in TaskIds :
          \/ start_pipeline(i)
          \/ run_pipeline_background(i)
          \/ RunAllStart(i)
          \/ RunAllEnd(i)
          \/ Stream(i)
          \/ Exit(i)
    \/ \E rid \in 0..strftime(MaxClock) : delete_pipeline(rid)
    \/ AnswerReceive
    \/ AnswerSearch
    \/ AnswerSynth

SpecPipeline == InitPipeline /\ [][NextPipeline]_vars

----------------------------------------------------------------------------
(* Properties of the pipeline management (checked under SpecPipeline) *)

\* C22: in a call of retrieve_and_answer that reached the answer synthesizer, the
\* site of the equality filter of the vector search is the site the system
\* instruction names, whatever happened to the configured site since the start
C22_FilterSiteIsPromptSite ==
    answer_req.system_site # "None" => answer_req.filter_site = answer_req.system_site

\* C24: the RUN_ID under which the launched run_all.py stores data/<RUN_ID> and
\* tags the uploaded chunks is the run_id POST /pipeline/start returned
C24_ReturnedRunIdIsDataRunId ==
    \A i \in TaskIds : tasks[i].RUN_ID # -1 => tasks[i].RUN_ID = tasks[i].run_id

\* C25: a vector search of POST /answer goes through a collection handle of the
\* database that is configured in os.environ when the search is made
C25_SearchUsesConfiguredDatabase ==
    answer_req.searched # "None" => answer_req.searched = answer_req.endpoint

\* C26: when a background run has ended, and its entry was neither deleted nor
\* written by another run, the entry is "completed" or "failed" with end_time set
\* and pipeline_history.json holds that same status for the run
C26_EndedRunIsTerminalOnDisk ==
    \A i \in TaskIds :
        LET rid == tasks[i].run_id
        IN (/\ tasks[i].pc \in {"done", "unhandled"}
            /\ rid \in DOMAIN pipeline_status
            /\ pipeline_status[rid].writers = {i}) =>
               /\ pipeline_status[rid].status \in {"completed", "failed"}
               /\ pipeline_status[rid].end_time # -1
               /\ rid \in DOMAIN history
               /\ history[rid].status = pipeline_status[rid].status

\* C27: two POST /pipeline/start requests get different run_ids, and no entry of
\* pipeline_status is written by more than one run
C27_DistinctRunIds ==
    /\ \A i, j \in TaskIds :
           (i # j /\ tasks[i].pc # "none" /\ tasks[j].pc # "none") =>
               tasks[i].run_id # tasks[j].run_id
    /\ \A rid \in DOMAIN pipeline_status :
           Cardinality(pipeline_status[rid].writers) <= 1

\* C28: run_pipeline_background never ends with an exception leaving the coroutine
C28_NoUnhandledException ==
    \A i \in TaskIds : tasks[i].pc # "unhandled"

----------------------------------------------------------------------------
(* crawl.py: crawl(start_url, max_depth, max_pages).  The manual URLs are   *)
(* fetched first, then the breadth-first loop runs; one step of the model  *)
(* is one iteration of either loop.  What a fetched page links to is       *)
(* settled when it is fetched: the links are those parse and filter_links  *)
(* return for it.                                                          *)

\* largest max_depth given to crawl
MaxDepth == 2

\* largest max_pages given to crawl
MaxPages == 3

Url(n, p, f) == [netloc |-> n, path |-> p, frag |-> f]

\* start_url: the home page of host h, plain or with a fragment
StartUrls == {Url("h", "/", ""), Url("h", "/", "top")}

\* the link lists a page can have: none, pages of the host with and without
\* fragment, a link to another host, a link back to the home page
LinkLists == {
    <<>>,
    <<Url("h", "/a", "")>>,
    <<Url("h", "/a", ""), Url("h", "/a", "x")>>,
    <<Url("h", "/a", "x"), Url("h", "/b", "")>>,
    <<Url("o", "/", ""), Url("h", "/", "")>>,
    <<Url("h", "/b", ""), Url("h", "/c", "")>> }

\* CRAWL_MANUAL_URLS: unset, one page of the host, a page of another host and one
\* of the host
ManualLists == {
    <<>>,
    <<Url("h", "/a", "x")>>,
    <<Url("o", "/", ""), Url("h", "/b", "")>> }

\* url.split("#", 1)[0]
Key(u) == [u EXCEPT !.frag = ""]

\* same_host accepting any pair
same_host_any(a, b) == TRUE

\* urlparse(a).netloc == urlparse(b).netloc
same_host(a, b) == a.netloc = b.netloc

\* Enqueue without the test d < max_depth
EnqueueAnyDepth(links, d, sn) ==
    LET new == SelectSeq(links, LAMBDA ln : Key(ln) \notin sn)
    IN [i \in 1..Len(new) |-> <<new[i], d + 1>>]

\* lines 229-233: what the page fetched at depth d appends to q
Enqueue(links, d, sn) ==
    IF d < max_depth
    THEN LET new == SelectSeq(links, LAMBDA ln : Key(ln) \notin sn)
         IN [i \in 1..Len(new) |-> <<new[i], d + 1>>]
    ELSE <<>>

\* the keys at most n links away from start_url, by the links of the saved pages
RECURSIVE Reach(_)
Reach(n) ==
    IF n < 0 THEN {}
    ELSE IF n = 0 THEN {Key(start_url)}
    ELSE LET near == Reach(n - 1)
         IN near \cup UNION { {Key(pages[i].links[j]) : j \in 1..Len(pages[i].links)} :
                                 i \in {k \in 1..Len(pages) : Key(pages[k].url) \in near} }

\* crawl called with a start url, the limits int(sys.argv[2]) and int(sys.argv[3])
\* (line 250), which nothing keeps from being negative, and the manual urls of
\* the environment; q holds (start_url, 0) (lines 204-206)
InitCrawl ==
    /\ pc = "start"
    /\ question = <<>>
    /\ terms = <<>>
    /\ cands = <<>>
    /\ gated = <<>>
    /\ ranked = <<>>
    /\ pairs = <<>>
    /\ CE = "None"
    /\ scores = <<>>
    /\ elapsed_ms = 0
    /\ ceFailure = "none"
    /\ path = "none"
    /\ calls = NoCalls
    /\ FINAL_K = 5
    /\ top_docs = <<>>
    /\ result = NoResult
    /\ store = NoStore
    /\ prev = NoPrev
    /\ RUN_ID = "None"
    /\ env = NoEnv
    /\ find_filter = NoFilter
    /\ threads = NoThreads
    /\ ce_built = 0
    /\ watsonx = FullConfig
    /\ PipelineIdle
    /\ crawl_pc = "manual"
    /\ start_url \in StartUrls
    /\ max_depth \in -1..MaxDepth
    /\ max_pages \in -1..MaxPages
    /\ MANUAL_URLS \in ManualLists
    /\ manual_i = 1
    /\ count = 0
    /\ queue = << <<start_url, 0>> >>
    /\ seen = {}
    /\ crawled = 0
    /\ fetched = <<>>
    /\ pages = <<>>

\* lines 184-198, one url of MANUAL_URLS: skipped when on another host, else
\* fetched and saved with no links and counted, or the error printed; after the
\* last one the loop of crawl begins (line 216)
fetch_and_save_manual ==
    /\ crawl_pc = "manual"
    /\ IF manual_i > Len(MANUAL_URLS)
       THEN /\ crawl_pc' = "loop"
            /\ UNCHANGED <<manual_i, count>>
       ELSE /\ manual_i' = manual_i + 1
            /\ IF same_host(start_url, MANUAL_URLS[manual_i])
               THEN count' \in {count, count + 1}
               ELSE UNCHANGED count
            /\ UNCHANGED crawl_pc
    /\ UNCHANGED <<start_url, max_depth, max_pages, MANUAL_URLS, queue, seen, crawled,
                   fetched, pages>>
    /\ UNCHANGED <<retrievalVars, env, pipelineVars>>

\* lines 216-235, one iteration: the head of q is taken; a seen key or another
\* host is dropped; else the key is added to seen and the url fetched; when
\* fetch or parse raises the error is printed, else the page is saved, crawled
\* incremented and the unseen links appended with depth d + 1
Loop ==
    /\ crawl_pc = "loop"
    /\ queue # <<>>
    /\ crawled < max_pages
    /\ LET url == Head(queue)[1]
           d == Head(queue)[2]
           key == Key(url)
       IN IF key \in seen \/ ~same_host(start_url, url)
          THEN /\ queue' = Tail(queue)
               /\ UNCHANGED <<seen, crawled, fetched, pages>>
          ELSE /\ seen' = seen \cup {key}
               /\ fetched' = Append(fetched, [url |-> url, d |-> d])
               /\ \/ /\ queue' = Tail(queue)
                     /\ UNCHANGED <<crawled, pages>>
                  \/ \E links \in LinkLists :
                        /\ pages' = Append(pages, [url |-> url, links |-> links])
                        /\ crawled' = crawled + 1
                        /\ queue' = Tail(queue) \o Enqueue(links, d, seen')
    /\ UNCHANGED <<crawl_pc, start_url, max_depth, max_pages, MANUAL_URLS, manual_i, count>>
    /\ UNCHANGED <<retrievalVars, env, pipelineVars>>

\* line 216 false, lines 236-241: the loop is left and master.json rebuilt
LoopExit ==
    /\ crawl_pc = "loop"
    /\ ~(queue # <<>> /\ crawled < max_pages)
    /\ crawl_pc' = "done"
    /\ UNCHANGED <<start_url, max_depth, max_pages, MANUAL_URLS, manual_i, count, queue,
                   seen, crawled, fetched, pages>>
    /\ UNCHANGED <<retrievalVars, env, pipelineVars>>

NextCrawl == fetch_and_save_manual \/ Loop \/ LoopExit

\* crawl is one coroutine and every fetch returns or raises within its timeout
\* (line 155), so a step that can be taken is taken
SpecCrawl == InitCrawl /\ [][NextCrawl]_vars /\ WF_vars(NextCrawl)

----------------------------------------------------------------------------
(* Properties of crawl (checked under SpecCrawl) *)

\* C29: the loop fetches no two urls that are equal up to the #fragment, and
\* every url it fetches has the netloc of start_url
C29_FetchedOnceOnStartHost ==
    /\ \A i, j \in 1..Len(fetched) :
           i # j => Key(fetched[i].url) # Key(fetched[j].url)
    /\ \A i \in 1..Len(fetched) : fetched[i].url.netloc = start_url.netloc

C29_Witness == crawl_pc = "done" /\ Len(fetched) = 2 /\ pages[1].links = <<Url("h", "/a", ""), Url("h", "/a", "x")>> /\ pages[2].links = <<Url("o", "/", ""), Url("h", "/", "")>>

\* C30: when crawl has ended the loop has saved at most max_pages pages, which
\* are the ones crawled counts; every url it fetches is at most max_depth links
\* from start_url; while the manual urls are fetched the loop has fetched
\* nothing, and the loop starts when all of them were handled; crawl ends, and
\* then q is empty or max_pages pages were saved
C30_BoundedCrawlTerminates ==
    /\ [](/\ (crawl_pc = "done" => Len(pages) <= max_pages)
          /\ crawled = Len(pages)
          /\ \A i \in 1..Len(fetched) :
                 /\ fetched[i].d <= max_depth
                 /\ Key(fetched[i].url) \in Reach(max_depth)
          /\ (crawl_pc = "manual" => fetched = <<>> /\ pages = <<>>)
          /\ (crawl_pc \in {"loop", "done"} => manual_i = Len(MANUAL_URLS) + 1)
          /\ (crawl_pc = "done" => queue = <<>> \/ Len(pages) >= max_pages))
    /\ <>(crawl_pc = "done")

\* C30, amended: the loop never has saved more than max_pages pages, and none
\* when max_pages is negative; every url it fetches is start_url itself, which
\* it fetches whatever max_depth is, or at most max_depth links from it; the
\* rest as above
C30_BoundedCrawlFromStartTerminates ==
    /\ [](/\ Len(pages) <= (IF max_pages > 0 THEN max_pages ELSE 0)
          /\ crawled = Len(pages)
          /\ \A i \in 1..Len(fetched) :
                 \/ fetched[i].d = 0 /\ fetched[i].url = start_url
                 \/ /\ fetched[i].d <= max_depth
                    /\ Key(fetched[i].url) \in Reach(max_depth)
          /\ (crawl_pc = "manual" => fetched = <<>> /\ pages = <<>>)
          /\ (crawl_pc \in {"loop", "done"} => manual_i = Len(MANUAL_URLS) + 1)
          /\ (crawl_pc = "done" => queue = <<>> \/ Len(pages) >= max_pages))
    /\ <>(crawl_pc = "done")

C30_Witness == crawl_pc = "done" /\ max_pages = 2 /\ crawled = 2 /\ queue # <<>> /\ count = 1 /\ max_depth = 1 /\ fetched[2].d = 1

====
